---- MODULE Spec2Model ----
(***************************************************************************)
(* A model of the task orchestrator (dnsvckvc/ai-agent-orchestrator):      *)
(* the Redis state store (task records, priority queues, agent registry), *)
(* the load balancer, the execution engine and the orchestrator's          *)
(* submit / cancel / drain / execute / retry loop.                         *)
(*                                                                         *)
(* The orchestrator runs on one asyncio event loop and talks to Redis with *)
(* the blocking client, so a coroutine runs without interruption from one  *)
(* await that really suspends (asyncio.sleep, asyncio.gather, the worker   *)
(* call) to the next.  Every action below is one such uninterrupted step.  *)
(***************************************************************************)
EXTENDS Integers, Sequences, FiniteSets, TLC

VARIABLES
    tasks,      \* store: task:<task_id> -> TaskState record
    queue,      \* store: queue:<task_type> -> sorted set of <<task_id, score>>
    agents,     \* store: agent:<agent_id> -> AgentInfo record
    typeIndex,  \* store: agent:type:<agent_type> -> set of agent ids
    now,        \* time.time(), in whole seconds
    rr,         \* LoadBalancer.round_robin_counters
    proc,       \* the _execute_task coroutine of each task id
    ready,      \* the event loop's FIFO of coroutines created but not yet started
    hist,       \* history of each task id (what was done to it so far)
    drain,      \* history of each queue: its pops since the last enqueue
    sel,        \* history: the last select_agent call and the state it read
    data,       \* store and history: the data fields of the task records followed
    orch,       \* the orchestrator processes that share the store with this one
    metrics,    \* MetricsCollector._counters, the counters followed
    worker,     \* one worker process: its BaseAgent and the execute() calls on it
    collector,  \* MetricsCollector: its lock, histograms, and the threads calling it
    ops,        \* registry commands in flight: what each client process has read
    running,    \* Orchestrator.running
    picks       \* history: the round-robin selections made for each capability

vars == <<tasks, queue, agents, typeIndex, now, rr, proc, ready, hist, drain, sel,
          data, orch, metrics, worker, collector, ops, running, picks>>

storeTaskVars == <<tasks, queue>>
storeAgentVars == <<agents, typeIndex>>
engineVars == <<proc, ready, hist>>

(***************************************************************************)
(* Bounds of the model.                                                    *)
(***************************************************************************)
PubMaxTime == 2      \* the clock of the followed writes runs from 0 to PubMaxTime
MaxSubmits == 2       \* submit_task calls that succeed, where a task_id is submitted again
NumRRAgents == 4     \* workers the round-robin load balancer chooses from
MaxPicks == 4        \* round-robin selections followed for each capability
NumThreads == 2      \* threads calling the metrics collector
MaxSamples == 3      \* max_histogram_samples of the collector
MaxSample == 2       \* recorded values are 1 .. MaxSample
MaxCount == 2        \* increments of a counter through the collector's threads
MaxCancelCalls == 2  \* cancel_task calls on one task
NumCalls == 3        \* execute() calls on the worker that can be open at once
WorkerCap == 2       \* max_concurrent_tasks of the worker
NumTasks == 3        \* task ids 1..NumTasks
NumExecTasks == 2    \* the ids among them that clients submit to the orchestrator
MaxPriority == 2     \* priorities 1..MaxPriority (lower number first)
MaxExecPriority == 1 \* ... and 1..MaxExecPriority for the tasks clients submit
MaxCap == 2          \* max_concurrent_tasks of a registered agent is 1..MaxCap
LBMaxCap == 1        \* ... and 1..LBMaxCap when the load balancer is checked on its own
NumRetryTasks == 1   \* clients' task ids when the retry policy is checked
RetryMaxCap == 1     \* ... and the workers' max_concurrent_tasks there
MaxPops == 3         \* get_next_task calls remembered between two enqueues
MaxTime == 31        \* the clock stops advancing here
ReapMaxTime == 61    \* the same, where the reaper is followed
MaxRR == 1           \* round-robin counters are followed up to this value

(***************************************************************************)
(* Program constants.                                                      *)
(***************************************************************************)
MAX_RETRIES == 3           \* orchestrator.py: task_state.retry_count < 3
HEARTBEAT_WINDOW == 30     \* load_balancer.py: current_time - last_heartbeat > 30
HEARTBEAT_INTERVAL == 10   \* main_agent.py: asyncio.sleep(10) between heartbeats
STALE_AGE == 60            \* orchestrator.py: cleanup_stale_agents(max_age_seconds=60)
DEFAULT_PRIORITY == 5      \* redis_manager.py: TaskState.priority: int = 5

\* Task ids.  An id i stands for a client-supplied string; i < j stands for
\* "string i sorts before string j" (the byte order Redis uses for members).
TaskIds == 1 .. NumTasks
Priorities == 1 .. MaxPriority

NoId == 0    \* get_next_task / select_agent returning None

TaskStatus == {"pending", "queued", "running", "completed", "failed",
               "cancelled", "retrying"}
Terminal == {"completed", "failed", "cancelled"}

\* Orchestrator.task_agent_mapping
task_agent_mapping ==
    [tt \in {"report_generation", "real_time_monitoring", "data_analysis",
             "api_call", "podcast_intelligence", "document_intelligence",
             "content_summarization", "industry_synthesis_only"} |->
        CASE tt = "report_generation" -> <<"data_ingest", "data_analysis", "synthesis">>
          [] tt = "real_time_monitoring" -> <<"video_detection", "alerting">>
          [] tt = "data_analysis" -> <<"data_analysis">>
          [] tt = "api_call" -> <<"api_caller">>
          [] tt = "podcast_intelligence" ->
                 <<"rss_feed_monitor", "podcast_transcript", "transcript_summary",
                   "industry_synthesis">>
          [] tt = "document_intelligence" ->
                 <<"document_reader", "transcript_summary", "industry_synthesis">>
          [] tt = "content_summarization" -> <<"transcript_summary">>
          [] tt = "industry_synthesis_only" -> <<"industry_synthesis">>]

TaskTypes == DOMAIN task_agent_mapping

\* The task types clients of the model submit, and the modes they put into
\* metadata["execution_mode"].
ClientTaskTypes == {"real_time_monitoring"}

\* A task_type that is no key of task_agent_mapping, and the keys queue:<type>
\* the store can hold.
UnknownTypes == {"unknown_type"}
QueueKeys == TaskTypes \cup UnknownTypes
MetaModes == {"parallel", "sequential", "hybrid"}

(***************************************************************************)
(* TaskState records (redis_manager.py).  The model keeps the fields the   *)
(* control flow reads: status, task_type, priority, retry_count and        *)
(* metadata["execution_mode"].                                             *)
(***************************************************************************)
NoTask == [status |-> "none", task_type |-> "none", priority |-> 0,
           retry_count |-> 0, execution_mode |-> "none"]

TaskState(status, task_type, priority, retry_count, execution_mode) ==
    [status |-> status, task_type |-> task_type, priority |-> priority,
     retry_count |-> retry_count, execution_mode |-> execution_mode]

\* RedisStateManager.get_task
get_task(t) == tasks[t]

(***************************************************************************)
(* Sorted sets.  A Redis sorted set holds each member once, ordered by     *)
(* score and, among equal scores, by the member string.                    *)
(***************************************************************************)
ZMembers(q) == {e[1] : e \in q}

ZScore(q, id) == (CHOOSE e \in q : e[1] = id)[2]

\* ZADD key {member: score}: an existing member only has its score replaced.
ZAdd(q, id, score) == {e \in q : e[1] # id} \cup {<<id, score>>}

ZBeforeMax(e, f) == e[2] > f[2] \/ (e[2] = f[2] /\ e[1] <= f[1])

\* Sorted-set order: by score, then by member.
ZBefore(e, f) == e[2] < f[2] \/ (e[2] = f[2] /\ e[1] <= f[1])

\* ZPOPMIN key 1: the first element in sorted-set order.
ZMin(q) == CHOOSE e \in q : \A f \in q : ZBefore(e, f)

\* RedisStateManager.get_next_task: the id popped (NoId for None).
get_next_task_result(q) == IF q = {} THEN NoId ELSE ZMin(q)[1]

get_next_task_queue_peek(q) == q

get_next_task_queue(q) == IF q = {} THEN q ELSE q \ {ZMin(q)}

\* RedisStateManager.get_queue_length
get_queue_length(q) == Cardinality(q)

\* RedisStateManager.create_task: SET task:<id> and ZADD queue:<type>, one
\* MULTI/EXEC pipeline.
create_task_tasks(ts, t, state) == [ts EXCEPT ![t] = state]

create_task_queue(qs, t, state) ==
    [qs EXCEPT ![state.task_type] = ZAdd(@, t, state.priority)]

\* RedisStateManager.update_task_status: read the stored record, replace its
\* status, write it back.  A missing record is left missing.
update_task_status(ts, t, status) ==
    IF ts[t].status = "none" THEN ts
    ELSE [ts EXCEPT ![t].status = status]

(***************************************************************************)
(* History of a queue: the contents when the last id was enqueued (base),  *)
(* the results of the get_next_task calls made since (out), and the order  *)
(* in which the ids now queued were enqueued (order).                      *)
(***************************************************************************)
NoDrain == [base |-> {}, out |-> <<>>, order |-> <<>>]

SeqWithout(s, x) == SelectSeq(s, LAMBDA y : y # x)

DrainEnqueue(d, q2, id) ==
    [base |-> q2, out |-> <<>>, order |-> Append(SeqWithout(d.order, id), id)]

DrainPop(d, res, score) ==
    [d EXCEPT !.out = Append(@, <<res, score>>),
              !.order = SeqWithout(@, res)]

(***************************************************************************)
(* Initial state: an empty store, no coroutine, the clock at 0.            *)
(***************************************************************************)
AgentTypes == UNION {{task_agent_mapping[tt][i] : i \in DOMAIN task_agent_mapping[tt]}
                     : tt \in TaskTypes}

\* Agent ids: two worker processes.
AgentIds == {1, 2}

NoAgent == [registered |-> FALSE, agent_type |-> "none", max_concurrent_tasks |-> 0,
            current_tasks |-> 0, healthy |-> FALSE, last_heartbeat |-> 0]

NoProc == [pc |-> "idle", local |-> NoTask, plan |-> <<>>, mid |-> 0,
           stages |-> <<>>, idx |-> 0]

NoHist == [cancelled |-> FALSE, attempts |-> 0, completions |-> 0, requeues |-> 0,
           stage_failed |-> FALSE]

NoSel == [called |-> FALSE]

NoPicks == [agents |-> <<>>, first |-> 0, selected |-> <<>>]

\* The data fields of a task the model follows.  Store: metadata["inputs"]
\* (NoInputs without the key), agent_executions, output, error (its code).
\* Coroutine: snap, the same fields of the task_state that get_task returned
\* to _execute_task.  History: task_inputs, the inputs of the TaskDefinition
\* that was submitted; log, the worker calls of the last attempt in the order
\* in which they were made and returned.
\* metadata without the key "inputs".
NoInputs == [present |-> FALSE, value |-> <<>>]

NoStored == [inputs |-> NoInputs, agent_executions |-> <<>>, output |-> [execution_mode |-> "none"],
             error |-> "none", updated_at |-> 0]

NoData == [task_inputs |-> <<>>, task_execution_mode |-> "none",
           submit_response |-> "none", cancel_responses |-> <<>>,
           published |-> <<>>, writes |-> 0, stored |-> NoStored, snap |-> NoStored, log |-> <<>>]

\* An orchestrator process: the position of its drainer ("loop": between two
\* task types; "pop": get_queue_length returned > 0 for type tt and
\* get_next_task is the next store command), the result of its last
\* get_next_task (<<>> before the first call), how often get_next_task returned each id to it, and its
\* _execute_task coroutines.
NoOrch == [pc |-> "loop", tt |-> "none", last |-> <<>>,
           pops |-> [t \in TaskIds |-> 0], invs |-> <<>>]

\* followed: the task ids whose data fields the model keeps; others: the
\* further orchestrator processes running against the same store.
\* The counters followed: tasks_submitted and tasks_submitted_<task_type>.
MetricKeys == {<<"tasks_submitted">>} \cup {<<"tasks_submitted", tt>> : tt \in QueueKeys}

metrics_increment_twice(m, metric_name) ==
    IF metric_name \in DOMAIN m THEN [m EXCEPT ![metric_name] = @ + 2] ELSE m

\* MetricsCollector.increment
metrics_increment(m, metric_name) ==
    IF metric_name \in DOMAIN m THEN [m EXCEPT ![metric_name] = @ + 1] ELSE m

\* The execute() calls on the worker of the model.
Calls == 1 .. NumCalls

\* What execute() is called with: AgentInput lists that _validate_inputs
\* accepts or rejects (no inputs, no input_type, no data).
AgentInputs ==
    {<<>>,
     <<[input_type |-> "video_stream", data |-> "frame"]>>,
     <<[input_type |-> "", data |-> "frame"]>>,
     <<[input_type |-> "video_stream", data |-> "None"]>>}

NoCall == [pc |-> "idle", inputs |-> <<>>, status |-> "none"]

\* BaseAgent.__init__, and no execute() call and no shutdown() made yet.
\* A call is "idle" (not made, or returned: its inputs and status are kept),
\* "waiting" (at the semaphore) or "processing" (in process()); shutdown is
\* "idle", "polling" or "returned".  semaphore and waiters are the value and
\* the FIFO wait list of asyncio.Semaphore.  total_completed and total_failed
\* are read by get_health alone; each call keeps the status it returned
\* instead of the two totals.
BaseAgent(max_concurrent_tasks) ==
    [max_concurrent_tasks |-> max_concurrent_tasks,
     current_tasks |-> 0,
     healthy |-> TRUE,
     semaphore |-> max_concurrent_tasks,
     waiters |-> <<>>,
     call |-> [c \in Calls |-> NoCall],
     shutdown |-> "idle"]

\* The threads that call the collector, and the histogram key followed.
Threads == 1 .. NumThreads

NoThread == [pc |-> "idle", frames |-> <<>>, value |-> 0, result |-> [op |-> "none"]]

\* MetricsCollector.__init__: the lock free (0, or the thread holding it),
\* no histogram sample; max_histogram_samples is the deque's maxlen.
\* A thread is "idle", at "acquire" (at `with self._lock`) or "locked" (inside
\* it); frames are its open calls, outermost first.
MetricsCollector(max_histogram_samples) ==
    [max_histogram_samples |-> max_histogram_samples,
     lock |-> 0,
     histograms |-> [key \in {"task_execution_time_ms"} |-> <<>>],
     thread |-> [th \in Threads |-> NoThread]]

\* The processes that send registry commands to the store, and a process with
\* no command in flight.
Clients == {"worker", "engine", "balancer", "reaper"}

NoOp == [pc |-> "idle", copy |-> NoAgent]

InitWith(followed, others, workers) ==
    /\ tasks = [t \in TaskIds |-> NoTask]
    /\ queue = [tt \in QueueKeys |-> {}]
    /\ agents = [a \in workers |-> NoAgent]
    /\ typeIndex = [ty \in AgentTypes |-> {}]
    /\ now = 0
    /\ rr = [ty \in AgentTypes |-> 0]
    /\ proc = [t \in TaskIds |-> NoProc]
    /\ ready = <<>>
    /\ hist = [t \in TaskIds |-> NoHist]
    /\ drain = [tt \in TaskTypes |-> NoDrain]
    /\ sel = NoSel
    /\ data = [t \in followed |-> NoData]
    /\ orch = [o \in others |-> NoOrch]
    /\ metrics = [k \in MetricKeys |-> 0]
    /\ worker = BaseAgent(WorkerCap)
    /\ collector = MetricsCollector(MaxSamples)
    /\ ops = [p \in Clients |-> NoOp]
    /\ running = TRUE
    /\ picks = [ty \in AgentTypes |-> NoPicks]

Init == InitWith({}, {}, AgentIds)

(***************************************************************************)
(* Agent registry (redis_manager.py).                                      *)
(***************************************************************************)
AgentInfo(agent_type, max_concurrent_tasks, current_tasks, healthy, last_heartbeat) ==
    [registered |-> TRUE, agent_type |-> agent_type,
     max_concurrent_tasks |-> max_concurrent_tasks, current_tasks |-> current_tasks,
     healthy |-> healthy, last_heartbeat |-> last_heartbeat]

\* RedisStateManager.register_agent: SET agent:<id>, SADD agent:type:<type>.
register_agent_agents(ag, a, info) == [ag EXCEPT ![a] = info]

register_agent_index(ix, a, info) == [ix EXCEPT ![info.agent_type] = @ \cup {a}]

\* RedisStateManager.get_agents_by_type: the records of the ids in the type
\* index that exist and are healthy, in the order SMEMBERS yielded the ids.
get_agents_by_type(order) ==
    SelectSeq(order, LAMBDA a : agents[a].registered /\ agents[a].healthy)

\* RedisStateManager.update_agent_heartbeat
update_agent_heartbeat(ag, a, time) ==
    IF ag[a].registered THEN [ag EXCEPT ![a].last_heartbeat = time] ELSE ag

Max(x, y) == IF x >= y THEN x ELSE y

increment_agent_tasks_up(ag, a, increment) ==
    IF ag[a].registered
    THEN [ag EXCEPT ![a].current_tasks = Max(0, @ + Max(increment, 0))]
    ELSE ag

\* RedisStateManager.increment_agent_tasks
increment_agent_tasks(ag, a, increment) ==
    IF ag[a].registered
    THEN [ag EXCEPT ![a].current_tasks = Max(0, @ + increment)]
    ELSE ag

\* RedisStateManager.cleanup_stale_agents: DEL the record and SREM the id from
\* the index of the record's type, for every record older than max_age_seconds.
IsStale(ag, a, time, max_age_seconds) ==
    ag[a].registered /\ time - ag[a].last_heartbeat > max_age_seconds

cleanup_stale_agents_agents(ag, time, max_age_seconds) ==
    [a \in DOMAIN ag |-> IF IsStale(ag, a, time, max_age_seconds) THEN NoAgent ELSE ag[a]]

cleanup_stale_agents_index(ag, ix, time, max_age_seconds) ==
    [ty \in DOMAIN ix |->
        ix[ty] \ {a \in DOMAIN ag : IsStale(ag, a, time, max_age_seconds)
                                    /\ ag[a].agent_type = ty}]

(***************************************************************************)
(* Load balancer (load_balancer.py).                                       *)
(***************************************************************************)
Strategies == {"least_loaded", "round_robin", "weighted", "random"}

\* The orders in which SMEMBERS can yield the members of a set.
Orders(S) ==
    {o \in [1 .. Cardinality(S) -> S] : \A i, j \in DOMAIN o : i # j => o[i] # o[j]}

is_agent_available_late(a) ==
    /\ agents[a].healthy
    /\ ~(now - agents[a].last_heartbeat > HEARTBEAT_WINDOW + 1)
    /\ ~(agents[a].current_tasks >= agents[a].max_concurrent_tasks)

\* LoadBalancer._is_agent_available
is_agent_available(a) ==
    /\ agents[a].healthy
    /\ ~(now - agents[a].last_heartbeat > HEARTBEAT_WINDOW)
    /\ ~(agents[a].current_tasks >= agents[a].max_concurrent_tasks)

\* The first element of a non-empty list that is minimal for the relation
\* Worse (a set of pairs <<x, y>>: x sorts after y): what a stable sort puts
\* first.
FirstBest(list, Worse) ==
    list[CHOOSE i \in 1 .. Len(list) :
            /\ \A j \in 1 .. Len(list) : <<list[i], list[j]>> \notin Worse
            /\ \A j \in 1 .. (i - 1) : <<list[j], list[i]>> \in Worse]

\* LoadBalancer._select_least_loaded: sorted(agents, key=current_tasks)[0]
select_least_loaded(list) ==
    FirstBest(list, {xy \in (DOMAIN agents) \X (DOMAIN agents) :
                        agents[xy[1]].current_tasks > agents[xy[2]].current_tasks})

select_round_robin_incremented(list, counter) == list[((counter + 1) % Len(list)) + 1]

\* LoadBalancer._select_round_robin: agents[counter % len(agents)]
select_round_robin(list, counter) == list[(counter % Len(list)) + 1]

\* LoadBalancer._select_weighted: the score (max - cur) * (1 - cur / max) is
\* (max - cur)^2 / max; two scores are compared without the division.
ScoreLess(x, y) ==
    LET fx == agents[x].max_concurrent_tasks - agents[x].current_tasks
        fy == agents[y].max_concurrent_tasks - agents[y].current_tasks
    IN fx * fx * agents[y].max_concurrent_tasks < fy * fy * agents[x].max_concurrent_tasks

select_weighted(list) ==
    FirstBest(list, {xy \in (DOMAIN agents) \X (DOMAIN agents) : ScoreLess(xy[1], xy[2])})

\* LoadBalancer.select_agent, given the order SMEMBERS yields, the strategy,
\* the round-robin counter and the index random.choice draws (0-based, taken
\* modulo the list length): the agent id, or NoId for None.
select_agent(order, strategy, counter, r) ==
    LET got == get_agents_by_type(order)
        available_agents == SelectSeq(got, is_agent_available)
    IN IF Len(got) = 0 THEN NoId
       ELSE IF Len(available_agents) = 0 THEN NoId
       ELSE CASE strategy = "least_loaded" -> select_least_loaded(available_agents)
              [] strategy = "round_robin" -> select_round_robin(available_agents, counter)
              [] strategy = "weighted" -> select_weighted(available_agents)
              [] OTHER -> available_agents[(r % Len(available_agents)) + 1]

\* The round-robin counter after select_agent.
select_agent_counter(order, strategy, counter) ==
    IF strategy = "round_robin"
       /\ Len(SelectSeq(get_agents_by_type(order), is_agent_available)) > 0
    THEN counter + 1 ELSE counter

(***************************************************************************)
(* The registry and the load balancer on their own: worker processes       *)
(* register and heartbeat, the execution engine counts tasks up and down,  *)
(* the reaper runs, time passes, and select_agent is called under every    *)
(* strategy.                                                               *)
(***************************************************************************)
LBTypes == {"video_detection", "alerting"}    \* the types workers register under
LBAsked == {"video_detection"}                \* the capability select_agent is asked for
TickSteps == {HEARTBEAT_WINDOW, HEARTBEAT_WINDOW + 1}

\* main_agent.main: a worker process registers itself.
RegisterAgent(a, ty, m) ==
    LET info == AgentInfo(ty, m, 0, TRUE, now)
    IN /\ agents' = register_agent_agents(agents, a, info)
       /\ typeIndex' = register_agent_index(typeIndex, a, info)

LBRegister(a, ty, m) ==
    /\ RegisterAgent(a, ty, m)
    /\ sel' = NoSel
    /\ UNCHANGED <<storeTaskVars, now, rr, engineVars, drain, data, orch, metrics, worker, collector, ops, running, picks>>

\* main_agent.send_heartbeat
LBHeartbeat(a) ==
    /\ agents[a].registered
    /\ agents' = update_agent_heartbeat(agents, a, now)
    /\ sel' = NoSel
    /\ UNCHANGED <<storeTaskVars, typeIndex, now, rr, engineVars, drain, data, orch, metrics, worker, collector, ops, running, picks>>

\* ExecutionEngine._execute_agent_task: +1 before the worker call, -1 after.
LBIncrement(a, increment) ==
    /\ agents[a].registered
    /\ agents[a].current_tasks + increment <= LBMaxCap
    /\ agents' = increment_agent_tasks(agents, a, increment)
    /\ sel' = NoSel
    /\ UNCHANGED <<storeTaskVars, typeIndex, now, rr, engineVars, drain, data, orch, metrics, worker, collector, ops, running, picks>>

\* LoadBalancer.report_agent_failure / report_agent_success: flip healthy and
\* register the record again.
LBReport(a, ok) ==
    /\ agents[a].registered
    /\ ok => ~agents[a].healthy
    /\ LET info == [agents[a] EXCEPT !.healthy = ok]
       IN /\ agents' = register_agent_agents(agents, a, info)
          /\ typeIndex' = register_agent_index(typeIndex, a, info)
    /\ sel' = NoSel
    /\ UNCHANGED <<storeTaskVars, now, rr, engineVars, drain, data, orch, metrics, worker, collector, ops, running, picks>>

\* Orchestrator._cleanup_stale_agents
CleanupStaleAgents ==
    /\ agents' = cleanup_stale_agents_agents(agents, now, STALE_AGE)
    /\ typeIndex' = cleanup_stale_agents_index(agents, typeIndex, now, STALE_AGE)

Tick(d) ==
    /\ now + d <= MaxTime
    /\ now' = now + d
    /\ sel' = NoSel
    /\ UNCHANGED <<storeTaskVars, storeAgentVars, rr, engineVars, drain, data, orch, metrics, worker, collector, ops, running, picks>>

LBSelect(ty, strategy) ==
    \E order \in Orders(typeIndex[ty]),
       r \in IF strategy = "random" THEN 0 .. (Cardinality(AgentIds) - 1) ELSE {0} :
        /\ strategy = "round_robin" => rr[ty] < MaxRR
        /\ rr' = [rr EXCEPT ![ty] = select_agent_counter(order, strategy, @)]
        /\ sel' = [called |-> TRUE, agent_type |-> ty,
                   result |-> select_agent(order, strategy, rr[ty], r)]
        /\ UNCHANGED <<storeTaskVars, storeAgentVars, now, engineVars, drain, data, orch, metrics, worker, collector, ops, running, picks>>

NextLB ==
    \/ \E a \in AgentIds, ty \in LBTypes, m \in 1 .. LBMaxCap : LBRegister(a, ty, m)
    \/ \E a \in AgentIds : LBHeartbeat(a)
    \/ \E a \in AgentIds, increment \in {1, -1} : LBIncrement(a, increment)
    \/ \E a \in AgentIds, ok \in BOOLEAN : LBReport(a, ok)
    \/ \E d \in TickSteps : Tick(d)
    \/ \E ty \in LBAsked, strategy \in Strategies : LBSelect(ty, strategy)

SpecLB == Init /\ [][NextLB]_vars

\* An agent the load balancer may hand out for a capability, in the current
\* state: in the capability's index, with a healthy record, a heartbeat at
\* most 30 s old and a free slot.
Eligible(a, ty) ==
    /\ a \in typeIndex[ty]
    /\ agents[a].registered
    /\ agents[a].healthy = TRUE
    /\ now - agents[a].last_heartbeat <= 30
    /\ agents[a].current_tasks < agents[a].max_concurrent_tasks

\* C8: under every strategy select_agent returns only an agent that is
\* registered under the capability, healthy, heard from within 30 s and below
\* its capacity, and it returns None exactly when there is no such agent.
C8_SelectOnlyEligible ==
    sel.called =>
        /\ sel.result # NoId => Eligible(sel.result, sel.agent_type)
        /\ sel.result = NoId <=> ~\E a \in AgentIds : Eligible(a, sel.agent_type)

\* C8 witness: with a fresh free agent and an agent whose heartbeat is 31 s
\* old both registered under the capability, the fresh one was returned.
C8_Witness ==
    /\ sel.called
    /\ sel.result # NoId
    /\ \E b \in typeIndex[sel.agent_type] :
          /\ b # sel.result
          /\ agents[b].registered /\ agents[b].healthy
          /\ agents[b].current_tasks < agents[b].max_concurrent_tasks
          /\ now - agents[b].last_heartbeat = 31

(***************************************************************************)
(* The queue on its own: create_task and get_next_task called directly on  *)
(* the state manager.                                                      *)
(***************************************************************************)
QCreateTask(t, tt, p) ==
    LET state == TaskState("queued", tt, p, 0, "none")
        q2 == create_task_queue(queue, t, state)
    IN /\ tasks' = create_task_tasks(tasks, t, state)
       /\ queue' = q2
       /\ drain' = [drain EXCEPT ![tt] = DrainEnqueue(@, q2[tt], t)]
       /\ UNCHANGED <<storeAgentVars, now, rr, engineVars, sel, data, orch, metrics, worker, collector, ops, running, picks>>

QGetNextTask(tt) ==
    LET res == get_next_task_result(queue[tt])
        score == IF res = NoId THEN 0 ELSE ZScore(queue[tt], res)
    IN /\ Len(drain[tt].out) < MaxPops
       /\ queue' = [queue EXCEPT ![tt] = get_next_task_queue(@)]
       /\ drain' = [drain EXCEPT ![tt] = DrainPop(@, res, score)]
       /\ UNCHANGED <<tasks, storeAgentVars, now, rr, engineVars, sel, data, orch, metrics, worker, collector, ops, running, picks>>

NextQueue ==
    \/ \E t \in TaskIds, tt \in ClientTaskTypes, p \in Priorities : QCreateTask(t, tt, p)
    \/ \E tt \in ClientTaskTypes : QGetNextTask(tt)

SpecQueue == Init /\ [][NextQueue]_vars

IndexOf(s, x) == CHOOSE i \in 1 .. Len(s) : s[i] = x

C10_FifoWithinPriority ==
    [][\A tt \in TaskTypes :
          (Len(drain'[tt].out) = Len(drain[tt].out) + 1
             /\ drain'[tt].out[Len(drain'[tt].out)][1] # NoId) =>
              LET x == drain'[tt].out[Len(drain'[tt].out)][1]
                  s == drain'[tt].out[Len(drain'[tt].out)][2]
              IN \A y \in ZMembers(queue[tt]) :
                     (y # x /\ ZScore(queue[tt], y) = s) =>
                         IndexOf(drain[tt].order, x) < IndexOf(drain[tt].order, y)]_vars

(***************************************************************************)
(* The orchestrator (orchestrator.py) and the execution engine             *)
(* (execution_engine.py).                                                  *)
(*                                                                         *)
(* proc[t] is the _execute_task coroutine of task id t:                    *)
(*   pc      "idle"      no coroutine                                      *)
(*           "scheduled" created by the drainer, not started yet           *)
(*           "gather"    awaiting asyncio.gather of stages 1..mid          *)
(*           "seq_call"  awaiting the worker call of sequential stage idx  *)
(*           "backoff"   in asyncio.sleep(2 ** retry_count)                *)
(*   local   task_state, the snapshot get_task returned at the start       *)
(*   plan    the agent id chosen for each stage                            *)
(*   mid     the number of stages run by execute_parallel                  *)
(*   stages  per stage: "pending" (coroutine created), "inflight" (worker  *)
(*           call awaited), "completed" / "failed" (the status of the      *)
(*           AgentTaskResult), "exception" (gather got an exception),      *)
(*           "notrun"                                                      *)
(* ready is the loop's FIFO of coroutines created and not yet started:     *)
(* <<"start", t>> for _execute_task(t), <<"gather", t>> for the stage      *)
(* coroutines asyncio.gather wrapped.                                      *)
(***************************************************************************)
ExecIds == 1 .. NumExecTasks

\* Orchestrator(max_workers=1): the concurrency budget the orchestrator of the
\* model is constructed with (the default is 100).
max_workers == 1

\* The AGENT_TYPE each worker process of the model is started with.
WorkerType(a) ==
    CASE a = 1 -> "video_detection"
      [] a = 2 -> "alerting"
      [] a = 3 -> "data_analysis"
      [] a = 4 -> "data_ingest"
      [] a = 5 -> "synthesis"

\* The keys of task_agent_mapping in the order the drainer iterates them.
TaskTypeOrder ==
    <<"report_generation", "real_time_monitoring", "data_analysis", "api_call",
      "podcast_intelligence", "document_intelligence", "content_summarization",
      "industry_synthesis_only">>

\* task_agent_mapping.get(task_type, [])
required_agents(task_type) ==
    IF task_type \in DOMAIN task_agent_mapping THEN task_agent_mapping[task_type] ELSE <<>>

\* The strategy method _execute_task calls for metadata["execution_mode"];
\* a missing key reads "sequential", any other value runs execute_hybrid.
execution_mode(meta) ==
    IF meta = "parallel" THEN "parallel"
    ELSE IF meta = "sequential" \/ meta = "none" THEN "sequential"
    ELSE "hybrid"

mid_point_up(n) == (n + 1) \div 2

\* execute_hybrid: mid_point
mid_point(n) == IF n > 1 THEN n \div 2 ELSE 1

\* The number of stages handed to execute_parallel.
parallel_stages(mode, n) ==
    IF mode = "parallel" THEN n ELSE IF mode = "hybrid" THEN mid_point(n) ELSE 0

retryable_once_more(retry_count) == retry_count <= MAX_RETRIES

\* _execute_task: if task_state.retry_count < 3
retryable(retry_count) == retry_count < MAX_RETRIES

\* _execute_agent_task: the status of the AgentTaskResult it returns; an
\* exception of the worker call is caught and becomes "failed".
agent_task_status(raised) == IF raised THEN "failed" ELSE "completed"

(***************************************************************************)
(* The data fields.  data holds them for the followed task ids only; for   *)
(* the other ids every operator below leaves data as it is.                *)
(***************************************************************************)
Followed(t) == t \in DOMAIN data

SetStored(d, t, new) == IF t \in DOMAIN d THEN [d EXCEPT ![t].stored = new] ELSE d

SetLog(d, t, new) == IF t \in DOMAIN d THEN [d EXCEPT ![t].log = new] ELSE d

\* update_task_status, every call: task.updated_at = time.time(), and the
\* status is published on task_updates:<task_id>.
update_task_status_published(d, t, status) ==
    IF t \in DOMAIN d /\ tasks[t].status # "none"
    THEN [d EXCEPT ![t].stored.updated_at = now,
                   ![t].published = Append(@, status),
                   ![t].writes = @ + 1]
    ELSE d

\* update_task_status(task_id, status, error=...): "if error: task.error = error"
update_task_status_error(d, t, code) ==
    IF t \in DOMAIN d /\ tasks[t].status # "none"
    THEN [d EXCEPT ![t].stored.error = code] ELSE d

\* update_task_status(task_id, status, output=...): "if output: task.output = output"
update_task_status_output(d, t, output) ==
    IF t \in DOMAIN d /\ tasks[t].status # "none"
    THEN [d EXCEPT ![t].stored.output = output] ELSE d

add_agent_execution_front(d, t, agent_type, status) ==
    IF t \in DOMAIN d /\ tasks[t].status # "none"
    THEN [d EXCEPT ![t].stored.agent_executions =
                       <<[agent_type |-> agent_type, status |-> status]>> \o @,
                   ![t].stored.updated_at = now,
                   ![t].writes = @ + 1]
    ELSE d

\* RedisStateManager.add_agent_execution
add_agent_execution(d, t, agent_type, status) ==
    IF t \in DOMAIN d /\ tasks[t].status # "none"
    THEN [d EXCEPT ![t].stored.agent_executions =
                       Append(@, [agent_type |-> agent_type, status |-> status]),
                   ![t].stored.updated_at = now,
                   ![t].writes = @ + 1]
    ELSE d

\* metadata.get("inputs", [])
metadata_inputs(inputs) == IF inputs.present THEN inputs.value ELSE <<>>

\* _call_agent_grpc: the dict it returns for the agent type.
WorkerOutput(agent_type) == <<"output_of", agent_type>>

\* The output of the AgentTaskResult with the given status.
result_output(status, agent_type) ==
    IF status = "completed" THEN WorkerOutput(agent_type) ELSE <<"None">>

\* Python truth of an output: None is false, the dicts of the workers are not.
Truthy(output) == output # <<"None">>

\* execute_sequential: "for result in reversed(results): if result.output"
RECURSIVE final_output(_)
final_output(outputs) ==
    IF outputs = <<>> THEN <<"None">>
    ELSE IF Truthy(outputs[Len(outputs)]) THEN outputs[Len(outputs)]
    ELSE final_output(SubSeq(outputs, 1, Len(outputs) - 1))

\* The dict execute_sequential returns.
sequential_result(outputs) ==
    [execution_mode |-> "sequential", final_output |-> final_output(outputs)]

\* The dict execute_parallel returns: "results": [r.output for r in
\* successful_results if r.output]
parallel_result(statuses, outputs) ==
    LET failed_results == {i \in DOMAIN statuses : statuses[i] = "exception"}
        successful_results == DOMAIN statuses \ failed_results
    IN [execution_mode |-> "parallel",
        successful_agents |-> Cardinality(successful_results),
        failed_agents |-> Cardinality(failed_results),
        results |-> SelectSeq(outputs, Truthy)]

\* The dict execute_hybrid returns.
hybrid_result(stage1_results, stage2_empty, stage2_results) ==
    [execution_mode |-> "hybrid",
     final_output |-> IF stage2_empty THEN stage1_results
                      ELSE stage2_results.final_output]

\* History: a worker call is made / has returned.
Dispatched(stage, inputs) == [ev |-> "dispatch", stage |-> stage, inputs |-> inputs]

Returned(stage, status, output) ==
    [ev |-> "return", stage |-> stage, status |-> status, output |-> output]

\* Orchestrator.submit_task: a TaskState with status QUEUED and the metadata of
\* the TaskDefinition goes to create_task; the inputs and the execution_mode
\* fields of the TaskDefinition go nowhere.  success is what create_task
\* returns: False when the store raised, and then nothing was written (the
\* SET and the ZADD are one transaction).
SubmitTaskDef(t, tt, inputs, mode, p, meta, meta_inputs, success) ==
    LET state == TaskState("queued", tt, p, 0, meta)
    IN /\ tasks[t].status = "none"
       /\ IF success
          THEN /\ tasks' = create_task_tasks(tasks, t, state)
               /\ queue' = create_task_queue(queue, t, state)
               /\ metrics' = metrics_increment(metrics_increment(metrics, <<"tasks_submitted">>),
                                               <<"tasks_submitted", tt>>)
               /\ data' = IF Followed(t)
                          THEN [data EXCEPT ![t] =
                                   [NoData EXCEPT !.task_inputs = inputs,
                                                  !.task_execution_mode = mode,
                                                  !.submit_response = "queued",
                                                  !.stored.inputs = meta_inputs,
                                                  !.stored.updated_at = now]]
                          ELSE data
          ELSE /\ data' = IF Followed(t)
                          THEN [data EXCEPT ![t].submit_response = "failed"]
                          ELSE data
               /\ UNCHANGED <<tasks, queue, metrics>>
       /\ UNCHANGED <<storeAgentVars, now, rr, engineVars, drain, sel, orch, worker, collector, ops, running, picks>>

\* submit_task of a TaskDefinition with inputs and no "inputs" key in metadata.
SubmitTask(t, tt, p, meta) ==
    SubmitTaskDef(t, tt, << <<"input_id", "i1">> >>, execution_mode(meta), p, meta, NoInputs,
                  TRUE)

\* Orchestrator.submit_task called with a task_id the store already has: the
\* same code runs.  There is no lookup of the id: the fresh TaskState (QUEUED,
\* retry_count 0, no agent_executions, no output, no error) replaces the stored
\* record (SET) and the id is added to the queue of the new task_type (ZADD),
\* whatever the stored task was doing.  A coroutine of the earlier submission
\* keeps what it holds.  Submissions are counted by tasks_submitted, which the
\* guard caps.
ResubmitTask(t, tt, inputs, mode, p, meta, meta_inputs) ==
    LET state == TaskState("queued", tt, p, 0, meta)
    IN /\ tasks[t].status # "none"
       /\ metrics[<<"tasks_submitted">>] < MaxSubmits
       /\ \A i \in 1 .. Len(ready) : ready[i][2] # t
       /\ tasks' = create_task_tasks(tasks, t, state)
       /\ queue' = create_task_queue(queue, t, state)
       /\ metrics' = metrics_increment(metrics_increment(metrics, <<"tasks_submitted">>),
                                       <<"tasks_submitted", tt>>)
       /\ data' = IF Followed(t)
                  THEN [data EXCEPT ![t].task_inputs = inputs,
                                    ![t].task_execution_mode = mode,
                                    ![t].submit_response = "queued",
                                    ![t].stored = [NoStored EXCEPT !.inputs = meta_inputs,
                                                                   !.updated_at = now]]
                  ELSE data
       /\ UNCHANGED <<storeAgentVars, now, rr, engineVars, drain, sel, orch, worker, collector, ops, running, picks>>

\* What cancel_task returned, call by call.
CancelResponse(d, t, success) ==
    IF t \in DOMAIN d THEN [d EXCEPT ![t].cancel_responses = Append(@, success)] ELSE d

CancelTerminalShort == {"completed", "cancelled"}

\* The list cancel_task tests the status against.
CancelTerminal == {"completed", "failed", "cancelled"}

\* Orchestrator.cancel_task returning False: the task is not found, or its
\* status is in the terminal list.
CancelTaskRejected(t) ==
    /\ get_task(t).status = "none" \/ get_task(t).status \in CancelTerminal
    /\ data' = CancelResponse(data, t, FALSE)
    /\ UNCHANGED <<storeTaskVars, storeAgentVars, now, rr, engineVars, drain, sel, orch,
                   metrics, worker, collector, ops, running, picks>>

\* Orchestrator.cancel_task returning True (it changes nothing when the task
\* is missing or its status is terminal).
CancelTask(t) ==
    /\ get_task(t).status # "none"
    /\ get_task(t).status \notin CancelTerminal
    /\ tasks' = update_task_status(tasks, t, "cancelled")
    /\ data' = CancelResponse(
                   update_task_status_published(
                       update_task_status_error(data, t, "CANCELLED"), t, "cancelled"),
                   t, TRUE)
    /\ hist' = [hist EXCEPT ![t].cancelled = TRUE]
    /\ UNCHANGED <<queue, storeAgentVars, now, rr, proc, ready, drain, sel, orch, metrics, worker, collector, ops, running, picks>>

\* main_agent.main: worker process a registers itself.
RegisterWorker(a, m) ==
    /\ ~agents[a].registered
    /\ RegisterAgent(a, WorkerType(a), m)
    /\ UNCHANGED <<storeTaskVars, now, rr, engineVars, drain, sel, data, orch, metrics, worker, collector, ops, running, picks>>

\* Orchestrator._process_task_queues, one pass of the while loop: for every
\* task type with a non-empty queue, pop one id and create its _execute_task
\* coroutine.  The pass runs after the coroutines the previous pass created
\* have started (they were put on the loop before the pass went to sleep).
Popped(tt) ==
    IF get_queue_length(queue[tt]) > 0 THEN get_next_task_result(queue[tt]) ELSE NoId

RECURSIVE StartEntries(_)
StartEntries(types) ==
    IF types = <<>> THEN <<>>
    ELSE IF Popped(Head(types)) # NoId
         THEN <<<<"start", Popped(Head(types))>>>> \o StartEntries(Tail(types))
         ELSE StartEntries(Tail(types))

ProcessTaskQueues ==
    /\ running
    /\ \A i \in 1 .. Len(ready) : ready[i][1] # "start"
    /\ \E tt \in TaskTypes : Popped(tt) # NoId
    /\ queue' = [tt \in DOMAIN queue |->
                    IF tt \in TaskTypes /\ get_queue_length(queue[tt]) > 0
                    THEN get_next_task_queue(queue[tt]) ELSE queue[tt]]
    /\ proc' = [t \in TaskIds |->
                   IF \E tt \in TaskTypes : Popped(tt) = t
                   THEN [NoProc EXCEPT !.pc = "scheduled"] ELSE proc[t]]
    /\ ready' = ready \o StartEntries(TaskTypeOrder)
    /\ UNCHANGED <<tasks, storeAgentVars, now, rr, hist, drain, sel, data, orch, metrics, worker, collector, ops, running, picks>>

\* get_task at the start of _execute_task, data fields: the coroutine's
\* task_state holds what is stored.
TakeSnap(d, t) ==
    IF t \in DOMAIN d THEN [d EXCEPT ![t].snap = d[t].stored] ELSE d

\* _execute_task: get_task, then update_task_status(task_id, RUNNING).
Running(d, t) == update_task_status_published(TakeSnap(d, t), t, "running")

\* _execute_task: update_task_status(task_id, COMPLETED, output=result)
Completed(d, t, output) ==
    update_task_status_published(update_task_status_output(d, t, output), t, "completed")

\* _build_execution_plan: "inputs": task_state.metadata.get("inputs", [])
plan_inputs(d, t) == metadata_inputs(d[t].snap.inputs)

LogDispatch(d, t, stage, inputs) ==
    IF t \in DOMAIN d THEN [d EXCEPT ![t].log = Append(@, Dispatched(stage, inputs))] ELSE d

LogPlanDispatch(d, t, stage) ==
    IF t \in DOMAIN d THEN LogDispatch(d, t, stage, plan_inputs(d, t)) ELSE d

RECURSIVE LogPlanDispatchAll(_, _, _)
LogPlanDispatchAll(d, t, k) ==
    IF k = 0 THEN d ELSE LogPlanDispatch(LogPlanDispatchAll(d, t, k - 1), t, k)

LogReturn(d, t, stage, status, agent_type) ==
    IF t \in DOMAIN d
    THEN [d EXCEPT ![t].log =
              Append(@, Returned(stage, status, result_output(status, agent_type)))]
    ELSE d

\* execute_parallel after the gather: add_agent_execution for every result
\* that is no exception, in plan order.
RECURSIVE RecordGathered(_, _, _, _, _)
RecordGathered(d, t, stages, req, k) ==
    IF k = 0 THEN d
    ELSE LET d1 == RecordGathered(d, t, stages, req, k - 1)
         IN IF stages[k] = "exception" THEN d1
            ELSE add_agent_execution(d1, t, req[k], stages[k])

\* The outputs of the results of stages from .. to.
StageOutputs(stages, req, from, to) ==
    [i \in 1 .. (to - from + 1) |-> result_output(stages[from + i - 1], req[from + i - 1])]

\* execute_hybrid: task_state.metadata['inputs'] = stage1_results.get('results', [])
SetSnapInputs(d, t, inputs) ==
    IF t \in DOMAIN d
    THEN [d EXCEPT ![t].snap.inputs = [present |-> TRUE, value |-> inputs]]
    ELSE d

\* create_task(task_state) of the retry: the coroutine's task_state is stored.
StoreSnap(d, t) ==
    IF t \in DOMAIN d
    THEN [d EXCEPT ![t].stored = d[t].snap, ![t].writes = @ + 1]
    ELSE d

\* _execute_task, the except branch, data fields: FAILED carries the envelope
\* {"message": str(e), "code": "EXECUTION_FAILED", "retryable": False}.
FailData(d, t, local) ==
    IF retryable(local.retry_count)
    THEN update_task_status_published(d, t, "retrying")
    ELSE update_task_status_published(
             update_task_status_error(d, t, "EXECUTION_FAILED"), t, "failed")

\* _execute_task, the except branch: retry with back-off, or FAILED.  ts is the
\* store after the writes made so far, local the coroutine's task_state.
\* The retry branch counts on the local task_state only; update_task_status
\* writes the status into the stored record.
FailTasks(ts, t, local) ==
    IF retryable(local.retry_count)
    THEN update_task_status(ts, t, "retrying")
    ELSE update_task_status(ts, t, "failed")

FailProc(p, local) ==
    IF retryable(local.retry_count)
    THEN [p EXCEPT !.pc = "backoff",
                   !.local = [local EXCEPT !.retry_count = @ + 1]]
    ELSE NoProc

\* LoadBalancer.select_agent as _build_execution_plan calls it (LEAST_LOADED):
\* the agents it can return for a type, over the orders SMEMBERS can yield.
PlanCandidates(ty) ==
    {select_agent(order, "least_loaded", 0, 0) : order \in Orders(typeIndex[ty])}

\* _build_execution_plan: one agent per required type; it raises when
\* select_agent returns None for a type.
PlanFails(req) == \E i \in 1 .. Len(req) : NoId \in PlanCandidates(req[i])

Plans(req) == {pl \in [1 .. Len(req) -> DOMAIN agents] :
                  \A i \in 1 .. Len(req) : pl[i] \in PlanCandidates(req[i])}

\* _execute_task from its start to its first suspension.
ExecStart(t) ==
    LET local == get_task(t)
        ts1 == update_task_status(tasks, t, "running")
        req == required_agents(local.task_type)
        n == Len(req)
        mode == execution_mode(local.execution_mode)
        mid == parallel_stages(mode, n)
        rest == Tail(ready)
    IN /\ ready # <<>> /\ Head(ready) = <<"start", t>>
       /\ hist' = [hist EXCEPT ![t].attempts = @ + 1, ![t].stage_failed = FALSE]
       /\ IF local.status = "none"
          THEN \* "Task not found": return
               /\ proc' = [proc EXCEPT ![t] = NoProc]
               /\ ready' = rest
               /\ UNCHANGED <<tasks, agents, data>>
          ELSE IF n = 0 \/ PlanFails(req)
          THEN \* ValueError (unknown type) or RuntimeError (no agent)
               /\ tasks' = FailTasks(ts1, t, local)
               /\ data' = FailData(Running(data, t), t, local)
               /\ proc' = [proc EXCEPT ![t] = FailProc(@, local)]
               /\ ready' = rest
               /\ UNCHANGED agents
          ELSE \E pl \in Plans(req) :
               /\ tasks' = ts1
               /\ IF mid > 0
                  THEN \* execute_parallel: gather wraps the stage coroutines
                       /\ proc' = [proc EXCEPT ![t] =
                              [pc |-> "gather", local |-> local, plan |-> pl, mid |-> mid,
                               stages |-> [i \in 1 .. n |->
                                              IF i <= mid THEN "pending" ELSE "notrun"],
                               idx |-> 0]]
                       /\ ready' = Append(rest, <<"gather", t>>)
                       /\ data' = Running(data, t)
                       /\ UNCHANGED agents
                  ELSE \* execute_sequential: the first stage is dispatched
                       /\ proc' = [proc EXCEPT ![t] =
                              [pc |-> "seq_call", local |-> local, plan |-> pl, mid |-> 0,
                               stages |-> [i \in 1 .. n |->
                                              IF i = 1 THEN "inflight" ELSE "notrun"],
                               idx |-> 1]]
                       /\ ready' = rest
                       /\ agents' = increment_agent_tasks(agents, pl[1], 1)
                       /\ data' = LogPlanDispatch(Running(data, t), t, 1)
       /\ UNCHANGED <<queue, typeIndex, now, rr, drain, sel, orch, metrics, worker, collector, ops, running, picks>>

RECURSIVE IncrementAll(_, _, _)
IncrementAll(ag, pl, k) ==
    IF k = 0 THEN ag
    ELSE increment_agent_tasks(IncrementAll(ag, pl, k - 1), pl[k], 1)

\* The stage coroutines of a gather start: each _execute_agent_task counts
\* its agent up and awaits the worker call.
GatherStart(t) ==
    /\ ready # <<>> /\ Head(ready) = <<"gather", t>>
    /\ ready' = Tail(ready)
    /\ agents' = IncrementAll(agents, proc[t].plan, proc[t].mid)
    /\ proc' = [proc EXCEPT ![t].stages =
                   [i \in DOMAIN @ |-> IF @[i] = "pending" THEN "inflight" ELSE @[i]]]
    /\ data' = LogPlanDispatchAll(data, t, proc[t].mid)
    /\ UNCHANGED <<storeTaskVars, typeIndex, now, rr, hist, drain, sel, orch, metrics, worker, collector, ops, running, picks>>

decrement_after_call_completed(ag, a, status) ==
    IF status = "failed" THEN ag ELSE increment_agent_tasks(ag, a, -1)

\* _execute_agent_task after the worker call: increment_agent_tasks(agent_id,
\* -1), after the call returned and in the except branch alike.
decrement_after_call(ag, a, status) == increment_agent_tasks(ag, a, -1)

\* _execute_agent_task of a gathered stage, from the return (or exception) of
\* the worker call to its end.
StageReturn(t, k, raised) ==
    /\ proc[t].pc = "gather"
    /\ k \in 1 .. proc[t].mid
    /\ proc[t].stages[k] = "inflight"
    /\ agents' = decrement_after_call(agents, proc[t].plan[k], agent_task_status(raised))
    /\ proc' = [proc EXCEPT ![t].stages[k] = agent_task_status(raised)]
    /\ hist' = [hist EXCEPT ![t].stage_failed = @ \/ raised]
    /\ data' = LogReturn(data, t, k, agent_task_status(raised),
                         required_agents(proc[t].local.task_type)[k])
    /\ UNCHANGED <<storeTaskVars, typeIndex, now, rr, ready, drain, sel, orch, metrics, worker, collector, ops, running, picks>>

\* _execute_task after its engine call returned: COMPLETED.
CompleteTasks(ts, t) == update_task_status(ts, t, "completed")

\* execute_parallel: "if failed_results and len(failed_results) ==
\* len(execution_plan)", failed_results holding the results that are exceptions.
AllAgentsFailed(stages, mid) ==
    LET failed_results == {i \in 1 .. mid : stages[i] = "exception"}
    IN failed_results # {} /\ Cardinality(failed_results) = mid

\* execute_parallel after the gather, then (hybrid) the entry into
\* execute_sequential with the second half of the plan, then the rest of
\* _execute_task.
GatherJoin(t) ==
    LET p == proc[t]
        n == Len(p.plan)
        req == required_agents(p.local.task_type)
        d1 == RecordGathered(data, t, p.stages, req, p.mid)
        stage1_results == parallel_result(SubSeq(p.stages, 1, p.mid),
                                          StageOutputs(p.stages, req, 1, p.mid))
    IN /\ p.pc = "gather"
       /\ \A i \in 1 .. p.mid : p.stages[i] \in {"completed", "failed", "exception"}
       /\ IF AllAgentsFailed(p.stages, p.mid)
          THEN /\ tasks' = FailTasks(tasks, t, p.local)
               /\ data' = FailData(d1, t, p.local)
               /\ proc' = [proc EXCEPT ![t] = FailProc(@, p.local)]
               /\ UNCHANGED <<agents, hist>>
          ELSE IF p.mid < n
          THEN /\ proc' = [proc EXCEPT ![t].pc = "seq_call",
                                       ![t].idx = p.mid + 1,
                                       ![t].stages[p.mid + 1] = "inflight"]
               /\ agents' = increment_agent_tasks(agents, p.plan[p.mid + 1], 1)
               /\ data' = SetSnapInputs(LogPlanDispatch(d1, t, p.mid + 1), t,
                                        stage1_results.results)
               /\ UNCHANGED <<tasks, hist>>
          ELSE /\ tasks' = CompleteTasks(tasks, t)
               /\ data' = Completed(d1, t,
                              IF execution_mode(p.local.execution_mode) = "parallel"
                              THEN stage1_results
                              ELSE hybrid_result(stage1_results, TRUE, stage1_results))
               /\ proc' = [proc EXCEPT ![t] = NoProc]
               /\ hist' = [hist EXCEPT ![t].completions = @ + 1]
               /\ UNCHANGED agents
       /\ UNCHANGED <<queue, typeIndex, now, rr, ready, drain, sel, orch, metrics, worker, collector, ops, running, picks>>

\* execute_sequential from the return (or exception) of the worker call of
\* stage idx to the next suspension: the next stage's call, or the end of
\* _execute_task.
SeqReturn(t, raised) ==
    LET p == proc[t]
        n == Len(p.plan)
        status == agent_task_status(raised)
        ag1 == decrement_after_call(agents, p.plan[p.idx], status)
        req == required_agents(p.local.task_type)
        stages1 == [p.stages EXCEPT ![p.idx] = status]
        d1 == add_agent_execution(LogReturn(data, t, p.idx, status, req[p.idx]),
                                  t, req[p.idx], status)
        stage2_results == sequential_result(StageOutputs(stages1, req, p.mid + 1, p.idx))
    IN /\ p.pc = "seq_call"
       /\ IF status # "failed" /\ p.idx < n
          THEN /\ proc' = [proc EXCEPT ![t].stages[p.idx] = status,
                                       ![t].stages[p.idx + 1] = "inflight",
                                       ![t].idx = p.idx + 1]
               /\ agents' = increment_agent_tasks(ag1, p.plan[p.idx + 1], 1)
               /\ hist' = [hist EXCEPT ![t].stage_failed = @ \/ raised]
               /\ data' = LogDispatch(d1, t, p.idx + 1, result_output(status, req[p.idx]))
               /\ UNCHANGED tasks
          ELSE \* break, or the loop is over: the result dict is returned
               /\ agents' = ag1
               /\ tasks' = CompleteTasks(tasks, t)
               /\ data' = Completed(d1, t,
                              IF p.mid = 0 THEN stage2_results
                              ELSE hybrid_result(
                                       parallel_result(SubSeq(p.stages, 1, p.mid),
                                          StageOutputs(p.stages, req, 1, p.mid)),
                                       FALSE, stage2_results))
               /\ proc' = [proc EXCEPT ![t] = NoProc]
               /\ hist' = [hist EXCEPT ![t].completions = @ + 1,
                                       ![t].stage_failed = @ \/ raised]
       /\ UNCHANGED <<queue, typeIndex, now, rr, ready, drain, sel, orch, metrics, worker, collector, ops, running, picks>>

\* _execute_task after the back-off sleep: create_task(task_state) writes the
\* coroutine's snapshot back and enqueues the id again.
BackoffWake(t) ==
    /\ proc[t].pc = "backoff"
    /\ tasks' = create_task_tasks(tasks, t, proc[t].local)
    /\ queue' = create_task_queue(queue, t, proc[t].local)
    /\ proc' = [proc EXCEPT ![t] = NoProc]
    /\ hist' = [hist EXCEPT ![t].requeues = @ + 1]
    /\ data' = StoreSnap(data, t)
    /\ UNCHANGED <<storeAgentVars, now, rr, ready, drain, sel, orch, metrics, worker, collector, ops, running, picks>>

\* Orchestrator.stop: running = False and task.cancel() for every entry of
\* task_processors.  A coroutine not yet started never runs; one suspended in
\* a worker call, a gather or the back-off sleep gets CancelledError, which no
\* `except Exception` catches: neither the -1 of _execute_agent_task nor a
\* status write nor the re-queue is made, only the finally clause.
Stop ==
    /\ running
    /\ running' = FALSE
    /\ proc' = [t \in TaskIds |-> NoProc]
    /\ ready' = <<>>
    /\ UNCHANGED <<storeTaskVars, storeAgentVars, now, rr, hist, drain, sel, data, orch,
                   metrics, worker, collector, ops, picks>>

\* The orchestrator with clients submitting the ids in ids with priorities in
\* prios and workers registering with a max_concurrent_tasks in caps.
NextOrch(ids, prios, caps) ==
    \/ \E t \in ids, tt \in ClientTaskTypes, p \in prios, meta \in MetaModes :
           SubmitTask(t, tt, p, meta)
    \/ \E t \in ids : CancelTask(t)
    \/ \E a \in AgentIds, m \in caps : RegisterWorker(a, m)
    \/ ProcessTaskQueues
    \/ \E t \in ids : ExecStart(t)
    \/ \E t \in ids : GatherStart(t)
    \/ \E t \in ids, k \in 1 .. 2, raised \in BOOLEAN : StageReturn(t, k, raised)
    \/ \E t \in ids : GatherJoin(t)
    \/ \E t \in ids, raised \in BOOLEAN : SeqReturn(t, raised)
    \/ \E t \in ids : BackoffWake(t)

Next == NextOrch(ExecIds, 1 .. MaxExecPriority, 1 .. MaxCap)

Spec == Init /\ [][Next]_vars

\* The same orchestrator with fewer clients and smaller workers.
NextRetry == NextOrch(1 .. NumRetryTasks, {DEFAULT_PRIORITY}, 1 .. RetryMaxCap)

SpecRetry == Init /\ [][NextRetry]_vars

\* The same with stop() called at any moment.
NextStop == NextRetry \/ Stop

SpecStop == Init /\ [][NextStop]_vars

(***************************************************************************)
(* The orchestrator with the data fields of its tasks followed: pipelines  *)
(* of one, two and three stages, a worker process for each of their        *)
(* capabilities, and clients that put the inputs into the TaskDefinition   *)
(* alone or into its metadata as well.                                     *)
(***************************************************************************)
\* The task whose data fields are followed.
DataIds == {1}

WorkerIds == {1, 2, 3, 4, 5}

DataTaskTypes == {"data_analysis", "real_time_monitoring", "report_generation"}

TaskInputs == {<< <<"input_id", "i1">> >>}

\* The values of ExecutionMode: TaskDefinition.execution_mode.  A client puts
\* the mode into the field alone (metadata without "execution_mode") or into
\* the metadata as well.
ExecutionModes == {"parallel", "sequential", "hybrid"}

MetaInputs == {NoInputs} \cup {[present |-> TRUE, value |-> inputs] : inputs \in TaskInputs}

DataPriorities == (1 .. MaxExecPriority) \cup {DEFAULT_PRIORITY}

InitData == InitWith(DataIds, {}, WorkerIds)

NextData ==
    \/ \E t \in DataIds, tt \in DataTaskTypes, inputs \in TaskInputs,
          mode \in ExecutionModes, meta_inputs \in MetaInputs :
           \E meta \in {"none", mode}, p \in DataPriorities, success \in BOOLEAN :
               SubmitTaskDef(t, tt, inputs, mode, p, meta, meta_inputs, success)
    \/ \E a \in WorkerIds, m \in 1 .. RetryMaxCap : RegisterWorker(a, m)
    \/ ProcessTaskQueues
    \/ \E t \in DataIds : ExecStart(t)
    \/ \E t \in DataIds : GatherStart(t)
    \/ \E t \in DataIds : \E k \in DOMAIN proc[t].stages, raised \in BOOLEAN :
           StageReturn(t, k, raised)
    \/ \E t \in DataIds : GatherJoin(t)
    \/ \E t \in DataIds, raised \in BOOLEAN : SeqReturn(t, raised)
    \/ \E t \in DataIds : BackoffWake(t)

SpecData == InitData /\ [][NextData]_vars

\* Clients that submit a task_id again, with the workers of AgentIds: every
\* TaskDefinition has the default priority, its execution_mode in the metadata
\* as well, and no "inputs" key.
ResubmitTypes == ClientTaskTypes \cup UnknownTypes

InitResubmit == InitWith(DataIds, {}, AgentIds)

NextResubmit ==
    \/ \E t \in DataIds, tt \in ResubmitTypes, mode \in ExecutionModes :
           SubmitTaskDef(t, tt, << <<"input_id", "i1">> >>, mode, DEFAULT_PRIORITY, mode,
                         NoInputs, TRUE)
    \/ \E t \in DataIds, tt \in ResubmitTypes, mode \in ExecutionModes :
           ResubmitTask(t, tt, << <<"input_id", "i1">> >>, mode, DEFAULT_PRIORITY, mode,
                        NoInputs)
    \/ \E a \in AgentIds, m \in 1 .. RetryMaxCap : RegisterWorker(a, m)
    \/ ProcessTaskQueues
    \/ \E t \in DataIds : ExecStart(t)
    \/ \E t \in DataIds : GatherStart(t)
    \/ \E t \in DataIds : \E k \in DOMAIN proc[t].stages, raised \in BOOLEAN :
           StageReturn(t, k, raised)
    \/ \E t \in DataIds : GatherJoin(t)
    \/ \E t \in DataIds, raised \in BOOLEAN : SeqReturn(t, raised)
    \/ \E t \in DataIds : BackoffWake(t)

SpecResubmit == InitResubmit /\ [][NextResubmit]_vars

(***************************************************************************)
(* The orchestrator with the writes of one task record followed: its       *)
(* updated_at, the notifications on task_updates:<task_id> and what        *)
(* cancel_task returns, while time passes.                                 *)
(***************************************************************************)
\* time.time() moves on by a second.
Elapse(limit) ==
    /\ now < limit
    /\ now' = now + 1
    /\ UNCHANGED <<storeTaskVars, storeAgentVars, rr, engineVars, drain, sel, data, orch,
                   metrics, worker, collector, ops, running, picks>>

CancelCalls(t) == IF t \in DOMAIN data THEN Len(data[t].cancel_responses) ELSE 0

NextPub ==
    \/ \E t \in DataIds, tt \in ClientTaskTypes, mode \in ExecutionModes :
           SubmitTaskDef(t, tt, << <<"input_id", "i1">> >>, mode, DEFAULT_PRIORITY, mode,
                         NoInputs, TRUE)
    \/ \E t \in DataIds : CancelCalls(t) < MaxCancelCalls /\ CancelTask(t)
    \/ \E t \in DataIds : CancelCalls(t) < MaxCancelCalls /\ CancelTaskRejected(t)
    \/ Elapse(PubMaxTime)
    \/ \E a \in AgentIds, m \in 1 .. RetryMaxCap : RegisterWorker(a, m)
    \/ ProcessTaskQueues
    \/ \E t \in DataIds : ExecStart(t)
    \/ \E t \in DataIds : GatherStart(t)
    \/ \E t \in DataIds : \E k \in DOMAIN proc[t].stages, raised \in BOOLEAN :
           StageReturn(t, k, raised)
    \/ \E t \in DataIds : GatherJoin(t)
    \/ \E t \in DataIds, raised \in BOOLEAN : SeqReturn(t, raised)
    \/ \E t \in DataIds : BackoffWake(t)

InitPub == InitWith(DataIds, {}, AgentIds)

SpecPub == InitPub /\ [][NextPub]_vars

(***************************************************************************)
(* One worker process: the execute() calls on its BaseAgent and            *)
(* shutdown().  A coroutine runs without interruption between two awaits   *)
(* that suspend: the wait at the semaphore, process() and the sleep of     *)
(* shutdown()'s poll.                                                      *)
(***************************************************************************)
orchestratorVars == <<tasks, queue, agents, typeIndex, now, rr, proc, ready, hist, drain,
                      sel, data, orch, metrics, collector, ops, running, picks>>

\* BaseAgent._validate_inputs: TRUE when it raises nothing.
validate_inputs(inputs) ==
    /\ inputs # <<>>
    /\ \A i \in DOMAIN inputs : inputs[i].input_type # "" /\ inputs[i].data # "None"

\* BaseAgent.execute from the return of process() or the exception to its
\* end: the finally clause and the release of the semaphore.
execute_leave_no_finally(w, c, status) ==
    [w EXCEPT !.current_tasks = IF status = "failed" THEN @ ELSE @ - 1,
              !.semaphore = @ + 1,
              !.call[c] = [pc |-> "idle", inputs |-> w.call[c].inputs, status |-> status]]

execute_leave(w, c, status) ==
    [w EXCEPT !.current_tasks = @ - 1,
              !.semaphore = @ + 1,
              !.call[c] = [pc |-> "idle", inputs |-> w.call[c].inputs, status |-> status]]

\* BaseAgent.execute from the semaphore acquired to the await of process(),
\* or to its end when _validate_inputs raises.
execute_enter(w, c, inputs) ==
    LET entered == [w EXCEPT !.semaphore = @ - 1,
                             !.current_tasks = @ + 1,
                             !.call[c] = [pc |-> "processing", inputs |-> inputs,
                                          status |-> "none"]]
    IN  IF validate_inputs(inputs) THEN entered ELSE execute_leave(entered, c, "failed")

\* The worker process runs until shutdown() has returned (main_agent.main).
WorkerRuns == worker.shutdown # "returned"

\* execute() is called: it goes on when the semaphore is free and nobody
\* waits for it, and waits in line otherwise.
Execute(c, inputs) ==
    /\ WorkerRuns
    /\ worker.call[c].pc = "idle"
    /\ worker' = IF worker.semaphore > 0 /\ worker.waiters = <<>>
                 THEN execute_enter(worker, c, inputs)
                 ELSE [worker EXCEPT !.waiters = Append(@, c),
                                     !.call[c] = [pc |-> "waiting", inputs |-> inputs,
                                                  status |-> "none"]]
    /\ UNCHANGED orchestratorVars

\* The first call in line acquires the released semaphore.
Admit(c) ==
    /\ WorkerRuns
    /\ worker.waiters # <<>>
    /\ Head(worker.waiters) = c
    /\ worker.semaphore > 0
    /\ worker' = execute_enter([worker EXCEPT !.waiters = Tail(@)], c,
                               worker.call[c].inputs)
    /\ UNCHANGED orchestratorVars

\* process() returns or raises.
ProcessReturn(c, raised) ==
    /\ WorkerRuns
    /\ worker.call[c].pc = "processing"
    /\ worker' = execute_leave(worker, c, IF raised THEN "failed" ELSE "completed")
    /\ UNCHANGED orchestratorVars

\* BaseAgent.shutdown up to its first sleep, or to its end when no task runs.
ShutdownBegin ==
    /\ worker.shutdown = "idle"
    /\ worker' = [worker EXCEPT !.healthy = FALSE,
                                !.shutdown = IF worker.current_tasks > 0
                                             THEN "polling" ELSE "returned"]
    /\ UNCHANGED orchestratorVars

\* BaseAgent.shutdown wakes from asyncio.sleep(0.1) and tests current_tasks.
ShutdownPoll ==
    /\ worker.shutdown = "polling"
    /\ worker' = [worker EXCEPT !.shutdown = IF worker.current_tasks > 0
                                             THEN "polling" ELSE "returned"]
    /\ UNCHANGED orchestratorVars

NextWorker ==
    \/ \E c \in Calls, inputs \in AgentInputs : Execute(c, inputs)
    \/ \E c \in Calls : Admit(c)
    \/ \E c \in Calls, raised \in BOOLEAN : ProcessReturn(c, raised)
    \/ ShutdownBegin
    \/ ShutdownPoll

SpecWorker == Init /\ [][NextWorker]_vars

\* The scheduling of the event loop: a call woken at the semaphore runs, the
\* sleep of the poll ends, and every process() that was started ends.  The
\* poll is given the benefit of strong fairness: it does not miss
\* current_tasks = 0 for ever when that state keeps coming back.
FairWorker ==
    /\ SF_vars(ShutdownPoll)
    /\ \A c \in Calls : WF_vars(Admit(c))
    /\ \A c \in Calls : WF_vars(\E raised \in BOOLEAN : ProcessReturn(c, raised))

SpecWorkerFair == SpecWorker /\ FairWorker

(***************************************************************************)
(* The worker process in the registry: main_agent.main registers the       *)
(* agent, heartbeats until the shutdown signal, then awaits shutdown();    *)
(* meanwhile the orchestrator's reaper and load balancer read the store.   *)
(***************************************************************************)
WorkerAgent == 1     \* AGENT_ID of the worker process

\* main_agent.main up to the heartbeat loop: register_agent with
\* current_tasks 0, healthy True and last_heartbeat = time.time().
WorkerStart ==
    /\ ~agents[WorkerAgent].registered
    /\ worker.shutdown = "idle"
    /\ RegisterAgent(WorkerAgent, WorkerType(WorkerAgent), worker.max_concurrent_tasks)
    /\ sel' = NoSel
    /\ UNCHANGED <<storeTaskVars, now, rr, engineVars, drain, data, orch, metrics, worker, collector, ops, running, picks>>

\* The process has registered (execute() calls reach it from then on).
WorkerStarted == agents[WorkerAgent].registered \/ worker.shutdown # "idle"

\* main_agent.send_heartbeat, until heartbeat_task.cancel() at the signal.
WorkerHeartbeat ==
    /\ worker.shutdown = "idle"
    /\ LBHeartbeat(WorkerAgent)

\* Orchestrator._cleanup_stale_agents: cleanup_stale_agents(max_age_seconds=60)
ReapStaleAgents ==
    /\ \E a \in DOMAIN agents : IsStale(agents, a, now, STALE_AGE)
    /\ CleanupStaleAgents
    /\ sel' = NoSel
    /\ UNCHANGED <<storeTaskVars, now, rr, engineVars, drain, data, orch, metrics, worker, collector, ops, running, picks>>

\* time.time() moves on by d seconds, up to limit.
TickUntil(d, limit) ==
    /\ now + d <= limit
    /\ now' = now + d
    /\ sel' = NoSel
    /\ UNCHANGED <<storeTaskVars, storeAgentVars, rr, engineVars, drain, data, orch, metrics, worker, collector, ops, running, picks>>

NextShutdown ==
    \/ WorkerStart
    \/ WorkerHeartbeat
    \/ \E c \in Calls : WorkerStarted /\ Execute(c, <<[input_type |-> "video_stream", data |-> "frame"]>>)
    \/ \E c \in Calls : Admit(c)
    \/ \E c \in Calls, raised \in BOOLEAN : ProcessReturn(c, raised)
    \/ WorkerStarted /\ ShutdownBegin
    \/ ShutdownPoll
    \/ \E d \in TickSteps : TickUntil(d, ReapMaxTime)
    \/ ReapStaleAgents
    \/ \E strategy \in Strategies : LBSelect(WorkerType(WorkerAgent), strategy)

SpecShutdown == Init /\ [][NextShutdown]_vars

(***************************************************************************)
(* The metrics collector (monitoring/metrics.py) called from several       *)
(* threads.  self._lock is a threading.Lock: a thread that reaches         *)
(* `with self._lock` waits until the lock is free, whoever holds it.       *)
(***************************************************************************)
Min(x, y) == IF x <= y THEN x ELSE y

RECURSIVE SumSeq(_)
SumSeq(q) == IF q = <<>> THEN 0 ELSE Head(q) + SumSeq(Tail(q))

\* MetricsCollector._percentile.  int((percentile / 100.0) * n) is
\* (percentile * n) \div 100 for the sample counts of the model.
percentile(sorted_values, p) ==
    IF sorted_values = <<>> THEN 0
    ELSE LET index == Min((p * Len(sorted_values)) \div 100, Len(sorted_values) - 1)
         IN  sorted_values[index + 1]

\* MetricsCollector.get_histogram_stats, inside the lock; mean is sum / count.
get_histogram_stats(samples) ==
    IF samples = <<>>
    THEN [count |-> 0, sum |-> 0, p50 |-> 0, p95 |-> 0, p99 |-> 0, min |-> 0, max |-> 0]
    ELSE LET values == SortSeq(samples, LAMBDA x, y : x < y)
         IN  [count |-> Len(values), sum |-> SumSeq(values),
              p50 |-> percentile(values, 50),
              p95 |-> percentile(values, 95),
              p99 |-> percentile(values, 99),
              min |-> values[1], max |-> values[Len(values)]]

\* MetricsCollector.record, inside the lock: append to the deque, which drops
\* its oldest sample beyond maxlen.
record(samples, value, maxlen) ==
    LET appended == Append(samples, value)
    IN  IF Len(appended) > maxlen THEN Tail(appended) ELSE appended

CollectorOps == {"increment", "record", "get_histogram_stats", "get_task_metrics",
                 "get_all_metrics", "check_sla_compliance"}

ReadOps == {"get_task_metrics", "get_all_metrics", "check_sla_compliance"}

collectorOther == <<storeTaskVars, storeAgentVars, now, rr, engineVars, drain, sel, data,
                    orch, worker, ops, running, picks>>

\* A thread calls a method of the collector and reaches its first
\* `with self._lock`; check_sla_compliance is in get_task_metrics by then.
CollectorCall(th, op, value) ==
    /\ collector.thread[th].pc = "idle"
    /\ op = "increment" => metrics[<<"tasks_submitted">>] < MaxCount
    /\ collector' = [collector EXCEPT !.thread[th] =
           [pc |-> "acquire",
            frames |-> IF op = "check_sla_compliance" THEN <<op, "get_task_metrics">>
                       ELSE <<op>>,
            value |-> value,
            result |-> [op |-> "none"]]]
    /\ UNCHANGED <<collectorOther, metrics>>

\* threading.Lock.acquire: the waiting thread gets the lock when it is free.
CollectorAcquire(th) ==
    /\ collector.thread[th].pc = "acquire"
    /\ collector.lock = 0
    /\ collector' = [collector EXCEPT !.lock = th, !.thread[th].pc = "locked"]
    /\ UNCHANGED <<collectorOther, metrics>>

\* The thread returns from its outermost call with result, the lock released.
CollectorReturn(c, th, result) ==
    [c EXCEPT !.lock = 0,
              !.thread[th] = [pc |-> "idle", frames |-> <<>>, value |-> 0, result |-> result]]

\* The thread calls get_histogram_stats while it holds the lock.
CollectorNested(c, th) ==
    [c EXCEPT !.thread[th].frames = Append(@, "get_histogram_stats"),
              !.thread[th].pc = "acquire"]

\* The body of the innermost open call, from its `with self._lock` to its
\* return or to the next `with self._lock`.
CollectorRun(th) ==
    LET t == collector.thread[th]
        top == t.frames[Len(t.frames)]
        samples == collector.histograms["task_execution_time_ms"]
    IN  /\ t.pc = "locked"
        /\ collector.lock = th
        /\ metrics' = IF top = "increment"
                      THEN metrics_increment(metrics, <<"tasks_submitted">>)
                      ELSE metrics
        /\ collector' =
              CASE top = "increment" -> CollectorReturn(collector, th, [op |-> top])
                [] top = "record" ->
                     CollectorReturn(
                         [collector EXCEPT !.histograms["task_execution_time_ms"] =
                              record(@, t.value, collector.max_histogram_samples)],
                         th, [op |-> top])
                [] top = "get_histogram_stats" ->
                     CollectorReturn(collector, th,
                         [op |-> t.frames[1], samples |-> samples,
                          stats |-> get_histogram_stats(samples)])
                [] top = "get_task_metrics" -> CollectorNested(collector, th)
                [] top = "get_all_metrics" ->
                     IF samples = <<>>
                     THEN CollectorReturn(collector, th, [op |-> top])
                     ELSE CollectorNested(collector, th)
        /\ UNCHANGED collectorOther

NextCollector ==
    \/ \E th \in Threads, op \in CollectorOps \ {"record"} : CollectorCall(th, op, 0)
    \/ \E th \in Threads, value \in 1 .. MaxSample : CollectorCall(th, "record", value)
    \/ \E th \in Threads : CollectorAcquire(th)
    \/ \E th \in Threads : CollectorRun(th)

SpecCollector == Init /\ [][NextCollector]_vars

\* Scheduling of the threads: a thread inside the lock runs on, and a thread
\* waiting for the lock gets it if it is free again and again.
FairCollector ==
    /\ \A th \in Threads : SF_vars(CollectorAcquire(th))
    /\ \A th \in Threads : WF_vars(CollectorRun(th))

SpecCollectorFair == SpecCollector /\ FairCollector

(***************************************************************************)
(* The registry commands of the worker process and of the orchestrator     *)
(* process, one store command at a time: register_agent is SET then SADD,  *)
(* update_agent_heartbeat and increment_agent_tasks are GET then SET,      *)
(* cleanup_stale_agents is GET, DEL, SREM; the store runs the commands of  *)
(* the processes in any order.                                             *)
(***************************************************************************)
raceOther == <<storeTaskVars, rr, engineVars, drain, sel, data, orch, metrics, worker,
               collector, running, picks>>

OpAt(p, pc) == ops[p].pc = pc

\* No registry command is half done (a command takes milliseconds; the clock
\* of the model moves between commands).
Quiescent == \A p \in Clients : OpAt(p, "idle")

OpTo(p, pc, copy) == ops' = [ops EXCEPT ![p] = [pc |-> pc, copy |-> copy]]

\* SET agent:<id> with the record rec.
SetAgent(rec) == agents' = register_agent_agents(agents, WorkerAgent, rec)

\* main_agent.main (a start or restart of the process): register_agent, SET.
RegisterSet ==
    LET info == AgentInfo(WorkerType(WorkerAgent), LBMaxCap, 0, TRUE, now)
    IN  /\ OpAt("worker", "idle")
        /\ SetAgent(info)
        /\ OpTo("worker", "register_sadd", info)
        /\ UNCHANGED <<raceOther, typeIndex, now>>

\* register_agent, SADD agent:type:<type>; of the worker or of the balancer.
RegisterSadd(p) ==
    /\ OpAt(p, "register_sadd")
    /\ typeIndex' = register_agent_index(typeIndex, WorkerAgent, ops[p].copy)
    /\ OpTo(p, "idle", NoAgent)
    /\ UNCHANGED <<raceOther, agents, now>>

\* send_heartbeat: update_agent_heartbeat, get_agent found the record.
HeartbeatGet ==
    /\ OpAt("worker", "idle")
    /\ agents[WorkerAgent].registered
    /\ OpTo("worker", "heartbeat_set", [agents[WorkerAgent] EXCEPT !.last_heartbeat = now])
    /\ UNCHANGED <<raceOther, storeAgentVars, now>>

\* update_agent_heartbeat, SET of the record read.
HeartbeatSet ==
    /\ OpAt("worker", "heartbeat_set")
    /\ SetAgent(ops["worker"].copy)
    /\ OpTo("worker", "idle", NoAgent)
    /\ UNCHANGED <<raceOther, typeIndex, now>>

\* _execute_agent_task: increment_agent_tasks(agent_id, 1), get_agent, for an
\* agent select_agent has just returned for the plan (in the type index, with
\* a record that _is_agent_available accepts).
IncrementGet ==
    /\ OpAt("engine", "idle")
    /\ WorkerAgent \in typeIndex[WorkerType(WorkerAgent)]
    /\ agents[WorkerAgent].registered
    /\ is_agent_available(WorkerAgent)
    /\ OpTo("engine", "increment_set", agents[WorkerAgent])
    /\ UNCHANGED <<raceOther, storeAgentVars, now>>

\* increment_agent_tasks, SET of the record read with the count changed; the
\* worker call is made after the +1.
IncrementSet(from, increment, to) ==
    /\ OpAt("engine", from)
    /\ SetAgent(increment_agent_tasks(
                    [agents EXCEPT ![WorkerAgent] = ops["engine"].copy],
                    WorkerAgent, increment)[WorkerAgent])
    /\ OpTo("engine", to, NoAgent)
    /\ UNCHANGED <<raceOther, typeIndex, now>>

\* The worker call is over: increment_agent_tasks(agent_id, -1), get_agent;
\* without a record it returns False.
DecrementGet ==
    /\ OpAt("engine", "call")
    /\ IF agents[WorkerAgent].registered
       THEN OpTo("engine", "decrement_set", agents[WorkerAgent])
       ELSE OpTo("engine", "idle", NoAgent)
    /\ UNCHANGED <<raceOther, storeAgentVars, now>>

\* LoadBalancer.report_agent_failure / report_agent_success: get_agent, then
\* register_agent with healthy changed (SET here, SADD after).
ReportGet(ok) ==
    /\ OpAt("balancer", "idle")
    /\ agents[WorkerAgent].registered
    /\ ok => ~agents[WorkerAgent].healthy
    /\ OpTo("balancer", "report_set", [agents[WorkerAgent] EXCEPT !.healthy = ok])
    /\ UNCHANGED <<raceOther, storeAgentVars, now>>

ReportSet ==
    /\ OpAt("balancer", "report_set")
    /\ SetAgent(ops["balancer"].copy)
    /\ OpTo("balancer", "register_sadd", ops["balancer"].copy)
    /\ UNCHANGED <<raceOther, typeIndex, now>>

\* cleanup_stale_agents: GET of a scanned key, the record is stale.
ReapGet ==
    /\ OpAt("reaper", "idle")
    /\ IsStale(agents, WorkerAgent, now, STALE_AGE)
    /\ OpTo("reaper", "reap_delete", agents[WorkerAgent])
    /\ UNCHANGED <<raceOther, storeAgentVars, now>>

\* cleanup_stale_agents: DEL agent:<id>
ReapDelete ==
    /\ OpAt("reaper", "reap_delete")
    /\ SetAgent(NoAgent)
    /\ OpTo("reaper", "reap_srem", ops["reaper"].copy)
    /\ UNCHANGED <<raceOther, typeIndex, now>>

\* cleanup_stale_agents: SREM agent:type:<type of the record read>
ReapSrem ==
    /\ OpAt("reaper", "reap_srem")
    /\ typeIndex' = [typeIndex EXCEPT ![ops["reaper"].copy.agent_type] = @ \ {WorkerAgent}]
    /\ OpTo("reaper", "idle", NoAgent)
    /\ UNCHANGED <<raceOther, agents, now>>

\* The worker's heartbeat against the orchestrator's writes of the record.
NextHeartbeat ==
    \/ RegisterSet
    \/ \E p \in {"worker", "balancer"} : RegisterSadd(p)
    \/ HeartbeatGet
    \/ HeartbeatSet
    \/ IncrementGet
    \/ IncrementSet("increment_set", 1, "call")
    \/ DecrementGet
    \/ IncrementSet("decrement_set", -1, "idle")
    \/ \E ok \in BOOLEAN : ReportGet(ok)
    \/ ReportSet
    \/ \E d \in TickSteps : Quiescent /\ TickUntil(d, MaxTime)

SpecHeartbeat == Init /\ [][NextHeartbeat]_vars

\* The worker's registration and heartbeat against the reaper.
NextReap ==
    \/ RegisterSet
    \/ RegisterSadd("worker")
    \/ HeartbeatGet
    \/ HeartbeatSet
    \/ ReapGet
    \/ ReapDelete
    \/ ReapSrem
    \/ \E d \in TickSteps \cup {HEARTBEAT_INTERVAL} : Quiescent /\ TickUntil(d, ReapMaxTime)

SpecReap == Init /\ [][NextReap]_vars

(***************************************************************************)
(* A load balancer constructed with LoadBalancingStrategy.ROUND_ROBIN, with *)
(* workers of two capabilities that register and take and finish tasks.    *)
(* picks[ty] is the history of the selections that returned an agent for   *)
(* ty: the available list the last one chose from (agents), the agents     *)
(* returned since the list was first seen as it is (selected), and the     *)
(* number of selections made before that (first).                          *)
(***************************************************************************)
RRAgents == 1 .. NumRRAgents

\* The AGENT_TYPE each of these worker processes is started with: the last
\* one serves the second capability, the others the first.
RRType(a) == IF a = NumRRAgents THEN "alerting" ELSE "video_detection"

InitRR == InitWith({}, {}, RRAgents)

\* LoadBalancer.select_agent under ROUND_ROBIN.
RRSelect(ty) ==
    \E order \in Orders(typeIndex[ty]) :
        LET available_agents == SelectSeq(get_agents_by_type(order), is_agent_available)
            selected == select_agent(order, "round_robin", rr[ty], 0)
        IN /\ rr[ty] < MaxPicks
           /\ rr' = [rr EXCEPT ![ty] = select_agent_counter(order, "round_robin", @)]
           /\ sel' = [called |-> TRUE, agent_type |-> ty, result |-> selected]
           /\ picks' = IF selected = NoId THEN picks
                        ELSE IF picks[ty].agents = available_agents
                        THEN [picks EXCEPT ![ty].selected = Append(@, selected)]
                        ELSE [picks EXCEPT ![ty] =
                                 [agents |-> available_agents,
                                  first |-> @.first + Len(@.selected),
                                  selected |-> <<selected>>]]
           /\ UNCHANGED <<storeTaskVars, storeAgentVars, now, engineVars, drain, data, orch,
                          metrics, worker, collector, ops, running>>

NextRR ==
    \/ \E a \in RRAgents, m \in 1 .. LBMaxCap : LBRegister(a, RRType(a), m)
    \/ \E a \in RRAgents, increment \in {1, -1} : LBIncrement(a, increment)
    \/ \E ty \in LBTypes : RRSelect(ty)

SpecRR == InitRR /\ [][NextRR]_vars

(***************************************************************************)
(* Several orchestrator processes on one store.  Processes interleave at   *)
(* the store commands of their drainers: get_queue_length and              *)
(* get_next_task are two commands, and another process can run between     *)
(* them.  An _execute_task coroutine is followed from its creation to its  *)
(* last store command; the execution engine's call is one step that        *)
(* returns (it raises in no case, see agent_task_status and                *)
(* AllAgentsFailed), and _build_execution_plan raises or not.              *)
(***************************************************************************)
Orchs == {1, 2}

InitMulti == InitWith({}, Orchs, AgentIds)

RemoveAt(s, i) == [j \in 1 .. (Len(s) - 1) |-> IF j < i THEN s[j] ELSE s[j + 1]]

\* submit_task on any of the processes; the client uses each id once.
MSubmitTask(t, tt, p) ==
    LET state == TaskState("queued", tt, p, 0, "none")
    IN /\ tasks[t].status = "none"
       /\ tasks' = create_task_tasks(tasks, t, state)
       /\ queue' = create_task_queue(queue, t, state)
       /\ UNCHANGED <<storeAgentVars, now, rr, engineVars, drain, sel, data, orch, metrics, worker, collector, ops, running, picks>>

\* _process_task_queues of process o: queue_length = get_queue_length(tt)
MQueueLength(o, tt) ==
    /\ orch[o].pc = "loop"
    /\ get_queue_length(queue[tt]) > 0
    /\ orch' = [orch EXCEPT ![o].pc = "pop", ![o].tt = tt]
    /\ UNCHANGED <<storeTaskVars, storeAgentVars, now, rr, engineVars, drain, sel, data, metrics, worker, collector, ops, running, picks>>

\* _process_task_queues of process o: task_id = get_next_task(tt), and
\* asyncio.create_task(_execute_task(task_id)) if it is not None.
MGetNextTask(o) ==
    LET tt == orch[o].tt
        res == get_next_task_result(queue[tt])
    IN /\ orch[o].pc = "pop"
       /\ queue' = [queue EXCEPT ![tt] = get_next_task_queue(@)]
       /\ orch' = [orch EXCEPT
              ![o].pc = "loop",
              ![o].last = <<res>>,
              ![o].pops = IF res = NoId THEN @ ELSE [@ EXCEPT ![res] = @ + 1],
              ![o].invs = IF res = NoId THEN @
                          ELSE Append(@, [t |-> res, pc |-> "created", local |-> NoTask])]
       /\ UNCHANGED <<tasks, storeAgentVars, now, rr, engineVars, drain, sel, data, metrics, worker, collector, ops, running, picks>>

\* _execute_task of process o from its start to the engine call, or into the
\* except branch when no plan can be built.
MExecStart(o, i, raises) ==
    LET inv == orch[o].invs[i]
        local == get_task(inv.t)
        ts1 == update_task_status(tasks, inv.t, "running")
    IN /\ inv.pc = "created"
       /\ local.status # "none"
       /\ hist' = [hist EXCEPT ![inv.t].attempts = @ + 1]
       /\ IF raises
          THEN /\ tasks' = FailTasks(ts1, inv.t, local)
               /\ orch' = [orch EXCEPT ![o].invs =
                      IF retryable(local.retry_count)
                      THEN [@ EXCEPT ![i] = [t |-> inv.t, pc |-> "backoff",
                                             local |-> FailProc(NoProc, local).local]]
                      ELSE RemoveAt(@, i)]
          ELSE /\ tasks' = ts1
               /\ orch' = [orch EXCEPT ![o].invs[i] =
                              [t |-> inv.t, pc |-> "engine", local |-> local]]
       /\ UNCHANGED <<queue, storeAgentVars, now, rr, proc, ready, drain, sel, data, metrics, worker, collector, ops, running, picks>>

\* _execute_task of process o after the engine call returned: COMPLETED.
MEngineReturn(o, i) ==
    LET inv == orch[o].invs[i]
    IN /\ inv.pc = "engine"
       /\ tasks' = CompleteTasks(tasks, inv.t)
       /\ hist' = [hist EXCEPT ![inv.t].completions = @ + 1]
       /\ orch' = [orch EXCEPT ![o].invs = RemoveAt(@, i)]
       /\ UNCHANGED <<queue, storeAgentVars, now, rr, proc, ready, drain, sel, data, metrics, worker, collector, ops, running, picks>>

InvAfterRequeueRuns(invs, i) == [invs EXCEPT ![i].pc = "engine"]

\* What is left of _execute_task after create_task re-enqueued the id: nothing
\* that touches the store (a metrics counter, the finally block).
InvAfterRequeue(invs, i) == RemoveAt(invs, i)

\* _execute_task of process o after the back-off sleep: create_task(task_state)
MBackoffWake(o, i) ==
    LET inv == orch[o].invs[i]
    IN /\ inv.pc = "backoff"
       /\ tasks' = create_task_tasks(tasks, inv.t, inv.local)
       /\ queue' = create_task_queue(queue, inv.t, inv.local)
       /\ hist' = [hist EXCEPT ![inv.t].requeues = @ + 1]
       /\ orch' = [orch EXCEPT ![o].invs = InvAfterRequeue(@, i)]
       /\ UNCHANGED <<storeAgentVars, now, rr, proc, ready, drain, sel, data, metrics, worker, collector, ops, running, picks>>

NextMulti ==
    \/ \E t \in 1 .. NumRetryTasks, tt \in ClientTaskTypes : MSubmitTask(t, tt, DEFAULT_PRIORITY)
    \/ \E o \in Orchs, tt \in TaskTypes : MQueueLength(o, tt)
    \/ \E o \in Orchs : MGetNextTask(o)
    \/ \E o \in Orchs : \E i \in DOMAIN orch[o].invs, raises \in BOOLEAN : MExecStart(o, i, raises)
    \/ \E o \in Orchs : \E i \in DOMAIN orch[o].invs : MEngineReturn(o, i)
    \/ \E o \in Orchs : \E i \in DOMAIN orch[o].invs : MBackoffWake(o, i)

SpecMulti == InitMulti /\ [][NextMulti]_vars

\* How often the id was put into its queue, and how often get_next_task
\* returned it, over all processes.
Enqueues(t) == (IF tasks[t].status = "none" THEN 0 ELSE 1) + hist[t].requeues

RECURSIVE SumOver(_, _)
SumOver(f, S) ==
    IF S = {} THEN 0
    ELSE LET x == CHOOSE y \in S : TRUE IN f[x] + SumOver(f, S \ {x})

Pops(t) == SumOver([o \in DOMAIN orch |-> orch[o].pops[t]], DOMAIN orch)

\* The _execute_task coroutines for the id that exist, over all processes.
Invocations(t) ==
    SumOver([o \in DOMAIN orch |->
                Cardinality({i \in 1 .. Len(orch[o].invs) : orch[o].invs[i].t = t})],
            DOMAIN orch)

\* C11: with several processes draining the same queue, get_next_task returns
\* an id at most as often as it was enqueued, so at most one _execute_task is
\* created per enqueue.
C11_OnePopPerEnqueue ==
    \A t \in TaskIds : Pops(t) <= Enqueues(t)

\* C11 witness: two processes saw the queue non-empty, one of them got the id
\* and the other got None.
C11_Witness ==
    \E o1, o2 \in DOMAIN orch, t \in TaskIds :
        /\ o1 # o2
        /\ orch[o1].last = <<t>> /\ orch[o1].pops[t] = 1
        /\ orch[o2].last = <<NoId>>

InProgress == {t \in TaskIds : proc[t].pc \notin {"idle", "scheduled"}}

\* C13, in every state: at most max_workers _execute_task invocations are in
\* progress in the orchestrator.
C13_State == Cardinality(InProgress) <= max_workers

\* C13, in every step: while max_workers invocations are in progress the
\* drainer pops no id (every queue keeps its members).
C13_Step ==
    Cardinality(InProgress) >= max_workers =>
        \A tt \in TaskTypes : ZMembers(queue[tt]) \subseteq ZMembers(queue'[tt])

\* C13: the number of _execute_task invocations in progress never exceeds
\* max_workers, and the drainer leaves the excess in the store's queue.
C13_MaxWorkers == []C13_State /\ [][C13_Step]_vars

(***************************************************************************)
(* The orchestrator under fair scheduling: no client cancels, clients also *)
(* submit a task_type the workflow table does not have, the event loop     *)
(* runs every coroutine that can run, every back-off sleep ends.           *)
(***************************************************************************)
NextLive ==
    \/ \E t \in ExecIds, tt \in ClientTaskTypes \cup UnknownTypes, meta \in MetaModes :
           SubmitTask(t, tt, DEFAULT_PRIORITY, meta)
    \/ \E a \in AgentIds, m \in 1 .. RetryMaxCap : RegisterWorker(a, m)
    \/ ProcessTaskQueues
    \/ \E t \in ExecIds : ExecStart(t)
    \/ \E t \in ExecIds : GatherStart(t)
    \/ \E t \in ExecIds, k \in 1 .. 2, raised \in BOOLEAN : StageReturn(t, k, raised)
    \/ \E t \in ExecIds : GatherJoin(t)
    \/ \E t \in ExecIds, raised \in BOOLEAN : SeqReturn(t, raised)
    \/ \E t \in ExecIds : BackoffWake(t)

\* The event loop: the drainer's next pass and every created coroutine run,
\* every sleep ends.
FairLoop ==
    /\ WF_vars(ProcessTaskQueues)
    /\ \A t \in ExecIds :
        /\ WF_vars(ExecStart(t))
        /\ WF_vars(GatherStart(t))
        /\ WF_vars(GatherJoin(t))
        /\ WF_vars(BackoffWake(t))

\* The workers: every worker call returns or raises.
FairWorkers ==
    \A t \in ExecIds :
        /\ WF_vars(\E k \in 1 .. 2, raised \in BOOLEAN : StageReturn(t, k, raised))
        /\ WF_vars(\E raised \in BOOLEAN : SeqReturn(t, raised))

SpecLive == Init /\ [][NextLive]_vars /\ FairLoop /\ FairWorkers

\* C14: a task submitted with a task_type that is no key of the workflow table
\* eventually becomes FAILED, and it is never RETRYING and never re-enqueued.
C14_UnknownTypeFails ==
    \A t \in ExecIds :
        /\ [](tasks[t].task_type \in UnknownTypes =>
                  /\ tasks[t].status # "retrying"
                  /\ hist[t].requeues = 0)
        /\ [](tasks[t].task_type \in UnknownTypes => <>(tasks[t].status = "failed"))

(***************************************************************************)
(* C15: the error envelope stored with a FAILED task carries the taxonomy  *)
(* code of its cause: NO_AGENTS_AVAILABLE when the plan could not be built *)
(* because no worker was selected for a required capability,               *)
(* WORKER_FAILURE when the workers of the attempt reported failure.        *)
(***************************************************************************)
C15_Cause(t) == IF proc[t].pc = "gather" THEN "WORKER_FAILURE" ELSE "NO_AGENTS_AVAILABLE"

C15_Step ==
    \A t \in DOMAIN data :
        (tasks[t].status # "failed" /\ tasks'[t].status = "failed") =>
            data'[t].stored.error = C15_Cause(t)

C15_ErrorCodeOfCause == [][C15_Step]_vars

(***************************************************************************)
(* C16: if an attempt of a task failed because a required capability had   *)
(* no available worker, and a healthy worker with a fresh heartbeat is     *)
(* registered for every required capability while a retry is still to be   *)
(* attempted, and no other task competes for the workers (every other task *)
(* is COMPLETED or FAILED, or waits in a queue that is never drained),     *)
(* then the task eventually becomes COMPLETED.                             *)
(***************************************************************************)
C16_WorkersUp(task_type) ==
    \A i \in DOMAIN required_agents(task_type) :
        \E a \in DOMAIN agents :
            /\ agents[a].registered
            /\ agents[a].agent_type = required_agents(task_type)[i]
            /\ agents[a].healthy
            /\ ~(now - agents[a].last_heartbeat > HEARTBEAT_WINDOW)

C16_RetryPending(t) ==
    /\ tasks[t].task_type \in TaskTypes
    /\ tasks[t].status \in {"retrying", "queued"}
    /\ hist[t].attempts \in 1 .. MAX_RETRIES

C16_OthersDone(t) ==
    \A u \in ExecIds \ {t} :
        \/ tasks[u].status \in {"completed", "failed"}
        \/ tasks[u].status = "queued" /\ tasks[u].task_type \in UnknownTypes

C16_RetrySucceedsAlone ==
    \A t \in ExecIds :
        (C16_RetryPending(t) /\ C16_WorkersUp(tasks[t].task_type) /\ C16_OthersDone(t))
            ~> (tasks[t].status = "completed")

C16_Witness ==
    \E t \in ExecIds :
        /\ tasks[t].status = "completed"
        /\ hist[t].attempts > 1
        /\ hist[t].requeues > 0
        /\ C16_OthersDone(t)

\* C16 as stated: the same without the condition on the other tasks.
C16_RetrySucceeds ==
    \A t \in ExecIds :
        (C16_RetryPending(t) /\ C16_WorkersUp(tasks[t].task_type))
            ~> (tasks[t].status = "completed")

Inflight(p) == {k \in DOMAIN p.stages : p.stages[k] = "inflight"}

Queued(t) == \E tt \in DOMAIN queue : t \in ZMembers(queue[tt])

(***************************************************************************)
(* The engine with workers that need not answer: _execute_agent_task       *)
(* awaits _call_agent_grpc with no deadline (grpc_timeout is stored by     *)
(* __init__ and read nowhere), so a stage returns only when its worker     *)
(* call does.  The event loop is fair, the workers are not.                *)
(***************************************************************************)
SpecHang == Init /\ [][NextLive]_vars /\ FairLoop

\* C17: every stage dispatch terminates: a stage whose worker call is
\* outstanding is eventually recorded (completed or failed), and its task does
\* not stay RUNNING for ever.
C17_StageTerminates ==
    \A t \in ExecIds :
        /\ (Inflight(proc[t]) # {}) ~> (Inflight(proc[t]) = {})
        /\ (tasks[t].status = "running") ~> (tasks[t].status # "running")

(***************************************************************************)
(* C18: in SEQUENTIAL mode the first stage is dispatched with the inputs   *)
(* the task was submitted with, every later stage k is dispatched with the *)
(* output of stage k-1, and the final_output of the attempt is the output  *)
(* of the last stage that succeeded.                                       *)
(***************************************************************************)
IsSequential(t) ==
    tasks[t].status # "none" /\ execution_mode(tasks[t].execution_mode) = "sequential"

C18_FirstInputs(t) ==
    \A i \in DOMAIN data[t].log :
        (data[t].log[i].ev = "dispatch" /\ data[t].log[i].stage = 1) =>
            data[t].log[i].inputs = data[t].task_inputs

C18_Chain(t) ==
    \A i \in DOMAIN data[t].log :
        (data[t].log[i].ev = "dispatch" /\ data[t].log[i].stage > 1) =>
            \E j \in 1 .. (i - 1) :
                /\ data[t].log[j].ev = "return"
                /\ data[t].log[j].stage = data[t].log[i].stage - 1
                /\ data[t].log[j].output = data[t].log[i].inputs

Succeeded(log) == {j \in DOMAIN log : log[j].ev = "return" /\ log[j].status = "completed"}

C18_Final(t) ==
    (tasks[t].status = "completed" /\ Succeeded(data[t].log) # {}) =>
        data[t].stored.output.final_output =
            data[t].log[CHOOSE j \in Succeeded(data[t].log) :
                            \A k \in Succeeded(data[t].log) : k <= j].output

C18_SequentialDataFlow ==
    \A t \in DOMAIN data :
        IsSequential(t) => C18_FirstInputs(t) /\ C18_Chain(t) /\ C18_Final(t)

\* The chain and the final output without the first stage's inputs.
SequentialChainAndFinal ==
    \A t \in DOMAIN data : IsSequential(t) => C18_Chain(t) /\ C18_Final(t)

(***************************************************************************)
(* C19: in SEQUENTIAL mode the stages are dispatched one at a time in plan *)
(* order, stage k+1 only after stage k returned successfully; no stage is  *)
(* dispatched after a failed one; and the agent_executions records of the  *)
(* task are appended in that same order.                                   *)
(***************************************************************************)
C19_SequentialOrder ==
    \A t \in DOMAIN data :
        IsSequential(t) =>
            LET log == data[t].log
                executions == data[t].stored.agent_executions
                req == required_agents(tasks[t].task_type)
            IN /\ \A i \in DOMAIN log :
                      /\ log[i].stage = (i + 1) \div 2
                      /\ log[i].stage <= Len(req)
                      /\ log[i].ev = IF i % 2 = 1 THEN "dispatch" ELSE "return"
               /\ \A i \in DOMAIN log :
                      (log[i].ev = "return" /\ log[i].status = "failed") => i = Len(log)
               /\ Len(executions) = Len(log) \div 2
               /\ \A k \in DOMAIN executions :
                      /\ executions[k].agent_type = req[k]
                      /\ executions[k].status = log[2 * k].status

\* A three-stage pipeline whose second stage failed: two records, the third
\* stage was never dispatched.
C19_Witness ==
    \E t \in DOMAIN data :
        /\ IsSequential(t)
        /\ tasks[t].task_type = "report_generation"
        /\ proc[t].pc = "idle"
        /\ Len(data[t].log) = 4
        /\ data[t].log[4].status = "failed"
        /\ Len(data[t].stored.agent_executions) = 2

(***************************************************************************)
(* C20: in HYBRID mode with an n-stage plan the first floor(n/2) stages    *)
(* (the one stage when n = 1) are dispatched together as the parallel      *)
(* phase and the others one after the other in plan order; no stage of the *)
(* sequential phase is dispatched before every stage of the parallel phase *)
(* has returned; no stage is dispatched twice; and the final output is the *)
(* final output of the sequential phase, or the aggregate of the parallel  *)
(* phase when the sequential phase is empty.                               *)
(***************************************************************************)
IsHybrid(t) ==
    tasks[t].status # "none" /\ execution_mode(tasks[t].execution_mode) = "hybrid"

DispatchesOf(log, k) == {i \in DOMAIN log : log[i].ev = "dispatch" /\ log[i].stage = k}

ReturnsOf(log, k) == {i \in DOMAIN log : log[i].ev = "return" /\ log[i].stage = k}

C20_Split(n) == IF n = 1 THEN 1 ELSE n \div 2

\* The outputs of the stages 1 .. m that returned "completed", in plan order.
RECURSIVE C20_Aggregate(_, _)
C20_Aggregate(log, m) ==
    IF m = 0 THEN <<>>
    ELSE LET r == CHOOSE i \in ReturnsOf(log, m) : TRUE
         IN IF log[r].status = "completed"
            THEN Append(C20_Aggregate(log, m - 1), log[r].output)
            ELSE C20_Aggregate(log, m - 1)

C21_HybridSecondPhaseInputs ==
    \A t \in DOMAIN data :
        IsHybrid(t) =>
            LET log == data[t].log
                m == C20_Split(Len(required_agents(tasks[t].task_type)))
            IN \A i \in DispatchesOf(log, m + 1) :
                   log[i].inputs = C20_Aggregate(log, m)

(***************************************************************************)
(* C22: in PARALLEL mode with at least one succeeding stage the task is    *)
(* COMPLETED and its result reports successful_agents = the number of      *)
(* stages that succeeded, failed_agents = the number of stages that failed *)
(* and a results list holding exactly the outputs of the succeeded stages. *)
(***************************************************************************)
IsParallel(t) ==
    tasks[t].status # "none" /\ execution_mode(tasks[t].execution_mode) = "parallel"

StagesFailed(log) == {j \in DOMAIN log : log[j].ev = "return" /\ log[j].status = "failed"}

C22_ParallelCounts ==
    \A t \in DOMAIN data :
        LET log == data[t].log
            n == Len(required_agents(tasks[t].task_type))
        IN (IsParallel(t) /\ proc[t].pc = "idle" /\ Succeeded(log) # {}) =>
               /\ tasks[t].status = "completed"
               /\ data[t].stored.output.successful_agents = Cardinality(Succeeded(log))
               /\ data[t].stored.output.failed_agents = Cardinality(StagesFailed(log))
               /\ data[t].stored.output.results = C20_Aggregate(log, n)

\* The task is COMPLETED and the results list is right; only the two counts
\* are left out.
ParallelCompletedWithResults ==
    \A t \in DOMAIN data :
        LET log == data[t].log
            n == Len(required_agents(tasks[t].task_type))
        IN (IsParallel(t) /\ proc[t].pc = "idle" /\ Succeeded(log) # {}) =>
               /\ tasks[t].status = "completed"
               /\ data[t].stored.output.results = C20_Aggregate(log, n)

(***************************************************************************)
(* C23: submit_task carries the execution_mode and the inputs of the       *)
(* TaskDefinition into the stored TaskState: _execute_task runs the        *)
(* strategy the submitted execution_mode names and the first stage is      *)
(* dispatched with the submitted inputs.                                   *)
(***************************************************************************)
\* The strategy of the attempt in progress, and of the result stored.
C23_StrategyRun(t) ==
    IF proc[t].pc \in {"gather", "seq_call"}
    THEN execution_mode(proc[t].local.execution_mode)
    ELSE data[t].stored.output.execution_mode

C23_SubmittedModeAndInputs ==
    \A t \in DOMAIN data :
        /\ (proc[t].pc \in {"gather", "seq_call"} \/ tasks[t].status = "completed") =>
               C23_StrategyRun(t) = data[t].task_execution_mode
        /\ C18_FirstInputs(t)

(***************************************************************************)
(* C24: when submit_task returns status "queued" for a task, the store     *)
(* holds a record of the task with status QUEUED and retry_count 0, the id *)
(* is in queue:<task_type> with its priority as score, and the counters    *)
(* tasks_submitted and tasks_submitted_<task_type> have each grown by one; *)
(* when create_task fails, submit_task returns status "failed" and neither *)
(* counter changes.                                                        *)
(***************************************************************************)
C24_Queued(t) ==
    LET tt == tasks'[t].task_type
    IN /\ tasks'[t].status = "queued"
       /\ tasks'[t].retry_count = 0
       /\ t \in ZMembers(queue'[tt])
       /\ ZScore(queue'[tt], t) = tasks'[t].priority
       /\ metrics'[<<"tasks_submitted">>] = metrics[<<"tasks_submitted">>] + 1
       /\ metrics'[<<"tasks_submitted", tt>>] = metrics[<<"tasks_submitted", tt>>] + 1
       /\ \A k \in DOMAIN metrics \ {<<"tasks_submitted">>, <<"tasks_submitted", tt>>} :
              metrics'[k] = metrics[k]

C24_Step ==
    \A t \in DOMAIN data :
        /\ (data[t].submit_response # "queued" /\ data'[t].submit_response = "queued") =>
               C24_Queued(t)
        /\ (data[t].submit_response # "failed" /\ data'[t].submit_response = "failed") =>
               /\ metrics' = metrics
               /\ tasks' = tasks
               /\ queue' = queue

C24_SubmitTask == [][C24_Step]_vars

\* A submission that was queued after one that failed.
C24_Witness ==
    \E t \in DOMAIN data :
        /\ data[t].submit_response = "queued"
        /\ tasks[t].status = "queued"
        /\ tasks[t].priority # DEFAULT_PRIORITY
        /\ metrics[<<"tasks_submitted", "report_generation">>] = 1

(***************************************************************************)
(* C25: cancel_task on a task whose status is COMPLETED, FAILED or         *)
(* CANCELLED returns false, leaves the stored record (status, error,       *)
(* output, updated_at) unchanged and publishes nothing; cancel_task on an  *)
(* unknown task_id returns false too.                                      *)
(***************************************************************************)
C25_Step ==
    \A t \in DOMAIN data :
        (/\ tasks[t].status \in Terminal \cup {"none"}
         /\ Len(data'[t].cancel_responses) = Len(data[t].cancel_responses) + 1) =>
            /\ data'[t].cancel_responses[Len(data'[t].cancel_responses)] = FALSE
            /\ tasks'[t] = tasks[t]
            /\ data'[t].stored = data[t].stored
            /\ data'[t].published = data[t].published
            /\ queue' = queue

C25_CancelTerminalNoOp == [][C25_Step]_vars

\* cancel_task was refused on a FAILED task.
C25_Witness ==
    \E t \in DOMAIN data :
        /\ tasks[t].status = "failed"
        /\ data[t].cancel_responses = <<FALSE>>

(***************************************************************************)
(* C26: on the channel task_updates:<task_id>, once a notification with a  *)
(* terminal status (completed, failed, cancelled) has been published, no   *)
(* further notification is published for the task.                         *)
(***************************************************************************)
C26_NothingAfterTerminal ==
    \A t \in DOMAIN data :
        \A i \in 1 .. (Len(data[t].published) - 1) :
            data[t].published[i] \notin Terminal

(***************************************************************************)
(* C27: every write that changes a stored task record after its creation   *)
(* (update_task_status, add_agent_execution, the re-queue of a retry       *)
(* through create_task) sets updated_at to the time of the write, so       *)
(* updated_at never decreases, and publishes one notification on           *)
(* task_updates:<task_id>.                                                 *)
(***************************************************************************)
C27_Step ==
    \A t \in DOMAIN data :
        data'[t].writes > data[t].writes =>
            /\ data'[t].stored.updated_at = now
            /\ data'[t].stored.updated_at >= data[t].stored.updated_at

C27_WritesRefreshAndPublish ==
    /\ [](\A t \in DOMAIN data : Len(data[t].published) = data[t].writes)
    /\ [][C27_Step]_vars

\* The three parts of it one by one: the writes of update_task_status alone
\* (a notification each), updated_at = the time of the write, and the order
\* of the values of updated_at.
EveryWritePublished == \A t \in DOMAIN data : Len(data[t].published) = data[t].writes

UpdatedAtIsWriteTime ==
    [][\A t \in DOMAIN data :
           data'[t].writes > data[t].writes => data'[t].stored.updated_at = now]_vars

UpdatedAtNeverDecreases ==
    [][\A t \in DOMAIN data :
           tasks[t].status # "none" =>
               data'[t].stored.updated_at >= data[t].stored.updated_at]_vars

\* C28: once the worker's healthy flag is false (shutdown() has begun), no
\* call to execute() is admitted: while healthy is false no step increments
\* current_tasks and no call starts process().
C28_Step ==
    ~worker.healthy =>
        /\ worker'.current_tasks <= worker.current_tasks
        /\ \A c \in Calls :
               worker'.call[c].pc = "processing" => worker.call[c].pc = "processing"

C28_NoAdmissionWhenUnhealthy == [][C28_Step]_vars

\* What does hold: healthy is false from the first step of shutdown() on,
\* and nothing sets it again.
HealthyFalseOnceShutdown == (worker.shutdown # "idle") <=> ~worker.healthy

\* C29: for any number of concurrent execute() calls on one worker,
\* 0 <= current_tasks <= max_concurrent_tasks in every state, at most
\* max_concurrent_tasks calls are in process() at once, and current_tasks is
\* decremented once for every admitted call, whether process() returns,
\* raises or the inputs are rejected: it counts the calls in process(), the
\* semaphore holds the rest, and it is 0 when no call is open.
Processing == {c \in Calls : worker.call[c].pc = "processing"}

C29_CurrentTasksBounded ==
    /\ 0 <= worker.current_tasks
    /\ worker.current_tasks <= worker.max_concurrent_tasks
    /\ Cardinality(Processing) <= worker.max_concurrent_tasks
    /\ worker.current_tasks = Cardinality(Processing)
    /\ worker.semaphore = worker.max_concurrent_tasks - worker.current_tasks
    /\ (\A c \in Calls : worker.call[c].pc = "idle") => worker.current_tasks = 0

\* The worker is idle again after calls that ended in each of the three
\* ways: a call returned "completed", one "failed" after process() raised
\* (its inputs were accepted) and one "failed" on rejected inputs.
C29_Witness ==
    /\ \A c \in Calls : worker.call[c].pc = "idle"
    /\ worker.current_tasks = 0
    /\ \E c \in Calls : worker.call[c].status = "completed"
    /\ \E c \in Calls :
           worker.call[c].status = "failed" /\ validate_inputs(worker.call[c].inputs)
    /\ \E c \in Calls :
           worker.call[c].status = "failed" /\ ~validate_inputs(worker.call[c].inputs)

\* The worker is full: max_concurrent_tasks calls in process() and a further
\* call waiting at the semaphore.
WorkerFull ==
    /\ worker.current_tasks = worker.max_concurrent_tasks
    /\ worker.waiters # <<>>

\* C30: shutdown() returns only in a state where healthy is false and
\* current_tasks = 0, and under fair scheduling, every admitted process()
\* call ending, a shutdown() that has begun returns in the end.
C30_ReturnStep ==
    (worker.shutdown # "returned" /\ worker'.shutdown = "returned") =>
        (~worker'.healthy /\ worker'.current_tasks = 0)

C30_ShutdownReturns ==
    /\ [][C30_ReturnStep]_vars
    /\ (worker.shutdown # "idle") ~> (worker.shutdown = "returned")

\* The first half alone, which holds.
ShutdownReturnsIdle == [][C30_ReturnStep]_vars

\* The second half alone.
ShutdownEnds == (worker.shutdown # "idle") ~> (worker.shutdown = "returned")

\* C31: after the worker process has completed its graceful shutdown (the
\* heartbeat loop cancelled, shutdown() returned), its agent record is in
\* neither the registry nor a type index, and the load balancer does not
\* select it afterwards.
C31_SelectStep ==
    (worker.shutdown = "returned" /\ sel'.called /\ sel' # sel) =>
        sel'.result # WorkerAgent

C31_DeregisteredOnShutdown ==
    /\ [](worker.shutdown = "returned" =>
              /\ ~agents[WorkerAgent].registered
              /\ \A ty \in DOMAIN typeIndex : WorkerAgent \notin typeIndex[ty])
    /\ [][C31_SelectStep]_vars

\* Its second half alone: no selection of the worker after shutdown() returned.
NotSelectedAfterShutdown == [][C31_SelectStep]_vars

\* What does remove the record: the reaper, once the last heartbeat is more
\* than 60 s old.
ReapedAfterShutdown ==
    /\ worker.shutdown = "returned"
    /\ ~agents[WorkerAgent].registered
    /\ WorkerAgent \notin typeIndex[WorkerType(WorkerAgent)]

\* C32: every call to check_sla_compliance(), get_task_metrics() and
\* get_all_metrics() terminates and returns its result: it never blocks for
\* ever on the collector's mutex, in any state of the collector and under any
\* interleaving with increment and record calls.
Reading(th) ==
    /\ collector.thread[th].pc # "idle"
    /\ collector.thread[th].frames[1] \in ReadOps

C32_ReadsTerminate ==
    \A th \in Threads : Reading(th) ~> (collector.thread[th].pc = "idle")

\* The same for the calls that take the lock once; this holds.
WritesTerminate ==
    \A th \in Threads :
        (collector.thread[th].pc # "idle" /\ ~Reading(th))
            ~> (collector.thread[th].pc = "idle" \/ \E o \in Threads : Reading(o))

\* get_all_metrics does return while no histogram sample was recorded.
AllMetricsReturned ==
    \E th \in Threads : collector.thread[th].result.op = "get_all_metrics"

\* A thread waits for the lock it holds itself.
SelfDeadlock ==
    \E th \in Threads : collector.lock = th /\ collector.thread[th].pc = "acquire"

\* C39: for every non-empty collection of recorded samples
\* get_histogram_stats returns p50, p95 and p99 equal to the nearest-rank
\* percentile of the sorted samples (the value at 1-based rank
\* ceil(p / 100 * n)), with min <= p50 <= p95 <= p99 <= max and count = n; for
\* a key with no samples every field is 0.
NearestRank(samples, p) ==
    LET values == SortSeq(samples, LAMBDA x, y : x < y)
    IN  values[((p * Len(values)) + 99) \div 100]

StatsOrdered(st) ==
    /\ st.min <= st.p50
    /\ st.p50 <= st.p95
    /\ st.p95 <= st.p99
    /\ st.p99 <= st.max

C39_NearestRankPercentiles ==
    \A th \in Threads :
        LET r == collector.thread[th].result
        IN  r.op = "get_histogram_stats" =>
                IF r.samples = <<>>
                THEN /\ r.stats.count = 0 /\ r.stats.sum = 0 /\ r.stats.min = 0
                     /\ r.stats.max = 0 /\ r.stats.p50 = 0 /\ r.stats.p95 = 0
                     /\ r.stats.p99 = 0
                ELSE /\ r.stats.count = Len(r.samples)
                     /\ r.stats.p50 = NearestRank(r.samples, 50)
                     /\ r.stats.p95 = NearestRank(r.samples, 95)
                     /\ r.stats.p99 = NearestRank(r.samples, 99)
                     /\ StatsOrdered(r.stats)

\* What does hold of the returned statistics: count, the order of the
\* fields, zeros without samples, and p95 and p99 at their nearest rank for
\* the sample counts of the model.
StatsCountOrderZero ==
    \A th \in Threads :
        LET r == collector.thread[th].result
        IN  r.op = "get_histogram_stats" =>
                IF r.samples = <<>>
                THEN r.stats = [count |-> 0, sum |-> 0, p50 |-> 0, p95 |-> 0, p99 |-> 0,
                                min |-> 0, max |-> 0]
                ELSE /\ r.stats.count = Len(r.samples)
                     /\ r.stats.p95 = NearestRank(r.samples, 95)
                     /\ r.stats.p99 = NearestRank(r.samples, 99)
                     /\ StatsOrdered(r.stats)

\* C33: every task accepted by submit_task that has not reached a terminal
\* state is, in every reachable state, in its priority queue or being
\* processed by an _execute_task in progress (created by the queue loop and
\* not ended), also after stop() cancelled the processors, one in its retry
\* back-off included.
C33_QueuedOrInProgress ==
    \A t \in TaskIds :
        tasks[t].status \notin (Terminal \cup {"none"}) =>
            (Queued(t) \/ proc[t].pc # "idle")

\* It holds as long as stop() is not called.
QueuedOrInProgressWhileRunning == running => C33_QueuedOrInProgress

\* stop() during the back-off of a retry: the task stays RETRYING for good.
StoppedInBackoff ==
    \E t \in TaskIds : ~running /\ tasks[t].status = "retrying" /\ ~Queued(t)

\* C34: every stage dispatch makes one increment_agent_tasks(agent, +1)
\* before the worker call and one increment_agent_tasks(agent, -1) after it,
\* on the success path and on the failure path alike: with one orchestrator
\* and no other writer of the record, an agent's stored current_tasks is the
\* number of its stages in flight.
StagesInFlight(a) ==
    Cardinality({tk \in UNION {{<<t, k>> : k \in DOMAIN proc[t].stages} : t \in TaskIds} :
                    /\ proc[tk[1]].stages[tk[2]] = "inflight"
                    /\ proc[tk[1]].plan[tk[2]] = a})

C35_HeartbeatStep ==
    (OpAt("worker", "heartbeat_set") /\ ops'["worker"].pc = "idle"
     /\ agents[WorkerAgent].registered) =>
        /\ agents'[WorkerAgent].current_tasks = agents[WorkerAgent].current_tasks
        /\ agents'[WorkerAgent].healthy = agents[WorkerAgent].healthy

C35_NoLostUpdate ==
    /\ []((OpAt("engine", "idle") /\ agents[WorkerAgent].registered) =>
              agents[WorkerAgent].current_tasks = 0)
    /\ [][C35_HeartbeatStep]_vars

\* Its two halves one by one.
IdleAgentCountsZero ==
    (OpAt("engine", "idle") /\ agents[WorkerAgent].registered) =>
        agents[WorkerAgent].current_tasks = 0

HeartbeatKeepsFields == [][C35_HeartbeatStep]_vars

\* C36: in every quiescent state (no registry command half done) reached by
\* interleavings of register_agent, update_agent_heartbeat and
\* cleanup_stale_agents, the record agent:<id> exists if and only if the id is
\* in the type index of its agent_type; a worker that keeps heartbeating is
\* never left with a record get_agents_by_type cannot see.
C36_RecordIffIndexed ==
    Quiescent =>
        (agents[WorkerAgent].registered
            <=> WorkerAgent \in typeIndex[WorkerType(WorkerAgent)])

\* A step of submit_task that succeeded: tasks_submitted is counted by no
\* other code.
SubmitStep == metrics'[<<"tasks_submitted">>] = metrics[<<"tasks_submitted">>] + 1

StoredFields(t) ==
    IF Followed(t)
    THEN <<data[t].stored.agent_executions, data[t].stored.output>>
    ELSE <<>>

C37_Step ==
    SubmitStep =>
        \A t \in TaskIds :
            tasks[t].status # "none" =>
                /\ tasks'[t].status = tasks[t].status
                /\ tasks'[t].retry_count = tasks[t].retry_count
                /\ StoredFields(t)' = StoredFields(t)
                /\ \A tt \in QueueKeys :
                       t \in ZMembers(queue'[tt]) => t \in ZMembers(queue[tt])

\* C37: submit_task with a task_id the store already has leaves the stored
\* task as it was: status, retry_count, agent_executions and output do not
\* change and the id is not enqueued (again).
C37_ResubmitChangesNothing == [][C37_Step]_vars

\* A running or terminal task is not reset to QUEUED by a submission.
C37_TerminalStep ==
    SubmitStep =>
        \A t \in TaskIds :
            tasks[t].status \in {"running", "completed", "failed", "cancelled"} =>
                tasks'[t].status # "queued"

TerminalNeverResetToQueued == [][C37_TerminalStep]_vars

\* A completed task was submitted again and its coroutine ran a second time.
CompletedTwice ==
    \E t \in DataIds : hist[t].completions = 2

\* The selections logged for a capability: the counter counted them and no
\* others, the i-th since the list was first seen is element
\* (first + i - 1) mod n of it, and any n in a row are the n agents of the list.
RoundRobin(ty) ==
    LET agent_list == picks[ty].agents
        selected == picks[ty].selected
        first == picks[ty].first
        n == Len(agent_list)
    IN /\ rr[ty] = first + Len(selected)
       /\ \A i \in 1 .. Len(selected) :
              selected[i] = agent_list[((first + i - 1) % n) + 1]
       /\ \A i \in 1 .. (Len(selected) - n + 1) :
              {selected[j] : j \in i .. (i + n - 1)} = {agent_list[j] : j \in 1 .. n}

C38_Step ==
    \A ty \in AgentTypes :
        rr'[ty] # rr[ty] =>
            /\ rr'[ty] = rr[ty] + 1
            /\ \A other \in AgentTypes \ {ty} :
                   rr'[other] = rr[other] /\ picks'[other] = picks[other]

\* C38: under ROUND_ROBIN the k-th selection made for a capability returns
\* element (k mod n) of the available list of n agents it chose from, a
\* selection for one capability leaves the counters of the others alone, and
\* n selections in a row from an unchanged list return each agent once.
C38_RoundRobin == [](\A ty \in AgentTypes : RoundRobin(ty)) /\ [][C38_Step]_vars

\* Three selections from one list of three agents, after an earlier selection
\* from another list and two selections for the other capability.
C38_Witness ==
    /\ Len(picks["video_detection"].agents) = 3
    /\ Len(picks["video_detection"].selected) = 3
    /\ picks["video_detection"].first = 1
    /\ rr["alerting"] = 2

\* The type indexes that hold an agent id.
IndexesOf(a) == {ty \in AgentTypes : a \in typeIndex[ty]}

\* C40: after any sequence of register_agent calls, also of one agent_id under
\* different agent_types, every agent that get_agents_by_type(T) returns has
\* agent_type T, and every registered agent_id is in exactly one type index.
C40_OneIndexPerAgent ==
    /\ \A ty \in AgentTypes : \A order \in Orders(typeIndex[ty]) :
           \A i \in DOMAIN get_agents_by_type(order) :
               agents[get_agents_by_type(order)[i]].agent_type = ty
    /\ \A a \in DOMAIN agents :
           agents[a].registered => Cardinality(IndexesOf(a)) = 1

\* select_agent returns only agents whose record has the capability asked for.
SelectedHasAskedType ==
    (sel.called /\ sel.result # NoId) => agents[sel.result].agent_type = sel.agent_type

\* Without a change of type every registered id is in the index of its type
\* and in no other.
C40_SameTypeStep ==
    (\A a \in DOMAIN agents :
        agents[a].registered /\ agents'[a].registered =>
            agents'[a].agent_type = agents[a].agent_type)
    => (C40_OneIndexPerAgent => C40_OneIndexPerAgent')

OneIndexWhileTypeKept == [][C40_SameTypeStep]_vars

\* C1: once the stored status of a task is COMPLETED, FAILED or CANCELLED, no
\* later write changes it.
C1_TerminalAbsorbing ==
    [][\A t \in TaskIds :
          tasks[t].status \in Terminal => tasks'[t].status = tasks[t].status]_vars

\* C2: after cancel_task returned true for a task, no further stage of the task
\* is dispatched to a worker and its id is not inserted into a queue again.
C2_CancelStopsWork ==
    [][\A t \in TaskIds :
          hist[t].cancelled =>
              /\ Inflight(proc'[t]) \subseteq Inflight(proc[t])
              /\ \A tt \in TaskTypes :
                     t \in ZMembers(queue'[tt]) => t \in ZMembers(queue[tt])]_vars

\* C3, in every state: a task that was never cancelled and none of whose
\* attempts completed has been attempted at most four times and re-enqueued at
\* most three times; while it waits between attempts it is in its queue with
\* stored retry_count = number of failed attempts; in RETRYING it is in back-off
\* with the count one above the stored one; it is FAILED only after the fourth
\* attempt, with stored retry_count 3, and then it is not queued.
C3_State ==
    \A t \in TaskIds :
        (~hist[t].cancelled /\ hist[t].completions = 0) =>
            /\ hist[t].attempts <= 4
            /\ hist[t].requeues <= 3
            /\ tasks[t].status = "failed" =>
                   /\ hist[t].attempts = 4
                   /\ hist[t].requeues = 3
                   /\ tasks[t].retry_count = 3
                   /\ proc[t].pc = "idle"
                   /\ ~Queued(t)
            /\ tasks[t].status = "retrying" =>
                   /\ proc[t].pc = "backoff"
                   /\ proc[t].local.retry_count = tasks[t].retry_count + 1
                   /\ hist[t].attempts = hist[t].requeues + 1
            /\ (proc[t].pc = "idle" /\ tasks[t].status \notin {"none", "failed"}) =>
                   /\ Queued(t)
                   /\ tasks[t].retry_count = hist[t].requeues
                   /\ hist[t].attempts = hist[t].requeues
            /\ (proc[t].pc = "idle" /\ hist[t].attempts = 4) => tasks[t].status = "failed"

\* C3, in every step: a re-enqueue of such a task starts from RETRYING, raises
\* the stored retry_count by exactly one and puts the same id into its queue.
C3_Step ==
    \A t \in TaskIds :
        (~hist[t].cancelled /\ hist[t].completions = 0
           /\ hist'[t].requeues = hist[t].requeues + 1) =>
            /\ tasks[t].status = "retrying"
            /\ tasks'[t].retry_count = tasks[t].retry_count + 1
            /\ t \in ZMembers(queue'[tasks'[t].task_type])

\* C3: a task whose every attempt fails and which is never cancelled is
\* attempted exactly four times (the first attempt and three retries, each
\* through RETRYING, each raising retry_count by one and re-enqueuing the id),
\* then is FAILED with retry_count 3 and is not enqueued again.
C3_FourAttemptsThenFailed == []C3_State /\ [][C3_Step]_vars

\* C3 witness: a task never cancelled, with no completed attempt, is FAILED
\* after four attempts.
C3_Witness ==
    \E t \in TaskIds :
        /\ ~hist[t].cancelled /\ hist[t].completions = 0
        /\ tasks[t].status = "failed"
        /\ hist[t].attempts = 4

\* C4: the stored retry_count of every task is between 0 and 3, and no task in
\* back-off is about to be re-enqueued with a retry_count above 3.
C4_RetryCountBounded ==
    \A t \in TaskIds :
        /\ tasks[t].retry_count \in 0 .. 3
        /\ proc[t].pc = "backoff" => proc[t].local.retry_count <= 3

\* C4 witness: a task is back in its queue with retry_count 3.
C4_Witness ==
    \E t \in TaskIds : Queued(t) /\ tasks[t].retry_count = 3 /\ hist[t].requeues = 3

\* C5: in PARALLEL mode, when every stage of the plan failed, the attempt fails:
\* the task goes to RETRYING or FAILED, it is not marked COMPLETED.
C5_ParallelAllFailed ==
    [][\A t \in TaskIds :
          (/\ proc[t].pc = "gather" /\ proc'[t].pc # "gather"
           /\ execution_mode(tasks[t].execution_mode) = "parallel"
           /\ \A k \in 1 .. proc[t].mid : proc[t].stages[k] \in {"failed", "exception"})
          => tasks'[t].status \in {"retrying", "failed"}]_vars

\* C6: in SEQUENTIAL mode, an attempt in which a stage failed does not mark the
\* task COMPLETED: the task goes to RETRYING when retry_count < 3, to FAILED
\* otherwise.
C6_SequentialStageFailure ==
    [][\A t \in TaskIds :
          (/\ proc[t].pc = "seq_call" /\ proc'[t].pc # "seq_call"
           /\ execution_mode(tasks[t].execution_mode) = "sequential"
           /\ hist'[t].stage_failed)
          => tasks'[t].status =
                 IF proc[t].local.retry_count < 3 THEN "retrying" ELSE "failed"]_vars

\* C7: every agent record has 0 <= current_tasks <= max_concurrent_tasks.
C7_CurrentTasksWithinCapacity ==
    \A a \in AgentIds :
        agents[a].registered =>
            /\ 0 <= agents[a].current_tasks
            /\ agents[a].current_tasks <= agents[a].max_concurrent_tasks

====
